---------------------------- MODULE Spec2Model ----------------------------
(***************************************************************************)
(* Model of the space-efficient quantile summary (modified Greenwald-      *)
(* Khanna): the B-tree of samples, the streaming compressor, the merge     *)
(* cursor and the Summary that drives them.                                *)
(*                                                                         *)
(* Conventions.                                                            *)
(*  - Option<X> is a sequence of length 0 (None) or 1 (Some(x)).           *)
(*  - Positions (pos, med_pos, ...) are the 0-based indices of the code;   *)
(*    a sequence is indexed with pos + 1.                                    *)
(*  - A `&mut` argument is a value passed in and handed back in the         *)
(*    result, the caller storing it where the reference pointed.            *)
(*  - f64 quantities (epsilon, the quantile) are exact rationals            *)
(*    [num, den]; for the inputs within the bounds the f64 products of      *)
(*    the code round to the exact values.                                   *)
(***************************************************************************)
EXTENDS Integers, Sequences, FiniteSets, Bags, TLC

VARIABLES summaries, alive, stream, hist, result, ctree, fed, call

vars == <<summaries, alive, stream, hist, result, ctree, fed, call>>

---------------------------------------------------------------------------
(* Bounds of the model *)

\* Greatest total number of values inserted over all summaries (Spec)
MaxLen == 6

\* Length of the stream dispatched over the summaries of SpecMerge
MergeLen == 5

\* Values are drawn from 1..MaxVal (Spec, SpecMerge)
MaxVal == 2

\* Greatest number of values inserted into the single summary of SpecInsert,
\* drawn from 1..InsertVal
InsertLen == 6

InsertVal == 3

\* The merge tree of SpecTree has 2^TreeDepth leaves, each fed TreeFill values
TreeDepth == 4

TreeFill == 21

\* The merge tree of SpecCeiling has 2^CeilingDepth leaves, each fed
\* CeilingFill values
CeilingDepth == 5

CeilingFill == 12

\* SpecIter: up to IterLen values drawn from 0..IterVal in any order, or the
\* IterDeep values 0, 1, 2, ... in ascending order
IterLen == 17

IterVal == 2

IterDeep == 140

\* SpecFused: up to StepLen values in any order, or IterLen ascending values,
\* then one iterator stepped to its end and beyond
StepLen == 3

\* SpecCheckpoints: samples drawn from 0..CheckpointsVal in any order, up to
\* CheckpointsLen of them recorded with a maximal gap of 1, or up to
\* CheckpointsShort of them recorded with a maximal gap of 1 or
\* CheckpointsGap; or CheckpointsDeep distinct samples in a fixed order with
\* a maximal gap of 1, then one more sample with a maximal gap of
\* CheckpointsGap
CheckpointsLen == 19

CheckpointsShort == 10

CheckpointsVal == 2

CheckpointsGap == 2

CheckpointsDeep == 175

\* SpecCheckpoints: the number of checkpoints above which the tree may be
\* rebuilt by a bulk compression
CheckpointsCeiling == 165

\* SpecSplit: the largest sample and the largest gap of a checkpoint
SplitVal == 3

SplitGap == 2

\* SpecOrder: the number of values fed to each of the two summaries, for the
\* tolerance of the test `compression` (OrderDeep) and for the others
OrderLen == 1000

OrderDeep == 100000

\* SpecOrder: the tolerances are the k / OrderDen inside (0, 1/2)
OrderDen == 20

\* SpecCompressor: the number of samples pushed, the largest g and delta of
\* a sample and the largest limit of a compressor
CompressorLen == 4

CompressorG == 2

CompressorDelta == 1

CompressorBudget == 4

\* SpecCursor: the number of samples under a cursor (their g and delta are
\* bounded as in SpecCompressor)
CursorLen == 3

\* Greatest total number of values inserted over the summaries of SpecNew
NewLen == 3

\* The quantiles of the query operations are the multiples of
\* 1/QuantileSteps from -1/QuantileSteps to 1 + 1/QuantileSteps
QuantileSteps == 2

---------------------------------------------------------------------------
(* Program constants *)

\* modified_gk/samples_tree/mod.rs: type NodeCapacity = typenum::U15
NodeCapacity == 15

\* algorithm/samples_tree/mod.rs: max number of elements per node of the
\* tree of checkpoints
NODE_CAPACITY == 16

---------------------------------------------------------------------------
(* Generic helpers *)

\* `let x = e; body`: e is evaluated first, once, and its value named
With(x, F(_)) == CHOOSE r \in {F(y) : y \in {x}} : TRUE

None == <<>>

Some(x) == <<x>>

IsSome(o) == o # <<>>

Unwrap(o) == o[1]

\* Vec::insert / Chunk::insert at the 0-based position pos
SeqInsert(s, pos, x) == SubSeq(s, 1, pos) \o <<x>> \o SubSeq(s, pos + 1, Len(s))

\* The elements of 0-based index >= at (what split_off returns)
SeqFrom(s, at) == SubSeq(s, at + 1, Len(s))

\* The elements of 0-based index < at (what split_off leaves behind)
SeqUpTo(s, at) == SubSeq(s, 1, at)

Max2(a, b) == IF a >= b THEN a ELSE b

\* floor(n / d) and ceil(n / d) for d > 0
FloorDiv(n, d) == n \div d

CeilDiv(n, d) == -((-n) \div d)

---------------------------------------------------------------------------
(* Sample *)

Sample(value, g, delta) == [value |-> value, g |-> g, delta |-> delta]

Sample_exact(value) == [value |-> value, g |-> 1, delta |-> 0]

---------------------------------------------------------------------------
(* SamplesNode: a node of the B-tree; children is None for a leaf *)

SamplesNode_new == [samples |-> <<>>, children |-> None]

SamplesNode_with_samples(samples, children) ==
    [samples |-> samples, children |-> children]

InsertResult_Inserted == [tag |-> "Inserted"]

InsertResult_PendingSplit(med, right) ==
    [tag |-> "PendingSplit", med |-> med, right |-> right]

PushResult_UpdatedInPlace == [tag |-> "UpdatedInPlace"]

PushResult_Inserted(ir) == [tag |-> "Inserted", insert |-> ir]

\* Insert a sample (and its right child, in a non-leaf) into a non-full node
insert_sample_non_full(node, sample, right_child, pos) ==
    [samples  |-> SeqInsert(node.samples, pos, sample),
     children |-> IF IsSome(node.children)
                    THEN Some(SeqInsert(Unwrap(node.children), pos + 1,
                                        Unwrap(right_child)))
                    ELSE None]

\* Insert a sample into the node, splitting it into (left, median, right)
\* when it is full. Returns the new node (left) and the InsertResult.
insert_sample(node, sample, right_child, pos) ==
    IF Len(node.samples) < NodeCapacity
    THEN [node   |-> insert_sample_non_full(node, sample, right_child, pos),
          result |-> InsertResult_Inserted]
    ELSE
      LET med_pos == Len(node.samples) \div 2
          right_samples == SeqFrom(node.samples, med_pos + 1)
          med_element == node.samples[med_pos + 1]
          left_samples == SeqUpTo(node.samples, med_pos)
          right_children ==
              IF IsSome(node.children)
                THEN Some(SeqFrom(Unwrap(node.children), med_pos + 1))
                ELSE None
          left_children ==
              IF IsSome(node.children)
                THEN Some(SeqUpTo(Unwrap(node.children), med_pos + 1))
                ELSE None
          left == [samples |-> left_samples, children |-> left_children]
          new_right_child ==
              [samples |-> right_samples, children |-> right_children]
      IN IF pos <= med_pos
         THEN [node   |-> insert_sample_non_full(left, sample, right_child, pos),
               result |-> InsertResult_PendingSplit(med_element, new_right_child)]
         ELSE [node   |-> left,
               result |-> InsertResult_PendingSplit(med_element,
                            insert_sample_non_full(new_right_child, sample,
                                right_child, pos - med_pos - 1))]

\* First 0-based index whose sample is greater than value, or the length
RECURSIVE position_greater(_, _, _)
position_greater(samples, value, i) ==
    IF i >= Len(samples) THEN Len(samples)
    ELSE IF samples[i + 1].value > value THEN i
    ELSE position_greater(samples, value, i + 1)

\* Can the sample absorb one more value under the limit cap?
\* Variant: the bound of the growth is checked before the growth is counted
sample_can_grow_before(s, cap) == s.delta + s.g <= cap

sample_can_grow(s, cap) == s.delta + s.g + 1 <= cap

\* Leaf case of push_value. Returns the node, the PushResult, the (possibly
\* updated) parent_right and whether the debug assertions held.
push_value_leaf(node, value, pos, cap, has_parent_left, parent_right) ==
    With(node.samples, LAMBDA samples :
    With(Len(samples), LAMBDA n :
    With([samples |-> samples, possible_sample |-> None,
          parent_right |-> parent_right, ok |-> TRUE], LAMBDA unchanged :
    With(
          IF pos = 0 /\ n = 0 THEN
            \* Tree is empty
            [unchanged EXCEPT !.possible_sample = Some(Sample_exact(value))]
          ELSE IF pos = 0 /\ ~has_parent_left THEN
            \* Minimum all the way
            With(samples[1].g = 1 /\ samples[1].delta = 0, LAMBDA ok :
               IF n >= 2 /\ sample_can_grow(samples[2], cap)
               THEN [unchanged EXCEPT
                       !.samples = [samples EXCEPT ![2].g = @ + 1,
                                                   ![1].value = value],
                       !.ok = ok]
               ELSE [unchanged EXCEPT
                       !.possible_sample = Some(Sample_exact(value)),
                       !.ok = ok])
          ELSE IF pos = n /\ ~IsSome(parent_right) THEN
            \* Maximum all the way
            With(samples[n], LAMBDA max :
               IF max.g + 1 <= cap
               THEN [unchanged EXCEPT
                       !.samples = [samples EXCEPT ![n].g = @ + 1,
                                                   ![n].value = value],
                       !.ok = (max.delta = 0)]
               ELSE [unchanged EXCEPT
                       !.possible_sample = Some(Sample_exact(value)),
                       !.ok = (max.delta = 0)])
          ELSE
            With(pos < n, LAMBDA local :
            With(IF local THEN samples[pos + 1] ELSE Unwrap(parent_right),
                 LAMBDA right :
               IF sample_can_grow(right, cap)
               THEN \* Drop
                    IF local
                    THEN [unchanged EXCEPT
                            !.samples = [samples EXCEPT ![pos + 1].g = @ + 1]]
                    ELSE [unchanged EXCEPT
                            !.parent_right = Some([right EXCEPT !.g = @ + 1])]
               ELSE \* Insert
                    [unchanged EXCEPT
                       !.possible_sample =
                           Some(Sample(value, 1, right.g + right.delta - 1))])),
         LAMBDA step :
    With([node EXCEPT !.samples = step.samples], LAMBDA node1 :
       IF IsSome(step.possible_sample)
       THEN With(insert_sample(node1, Unwrap(step.possible_sample), None, pos),
                 LAMBDA ins :
                [node |-> ins.node, result |-> PushResult_Inserted(ins.result),
                 parent_right |-> step.parent_right, ok |-> step.ok])
       ELSE [node |-> node1, result |-> PushResult_UpdatedInPlace,
             parent_right |-> step.parent_right, ok |-> step.ok])))))

\* SamplesNode::push_value
RECURSIVE node_push_value(_, _, _, _, _)
node_push_value(node, value, cap, has_parent_left, parent_right) ==
    With(position_greater(node.samples, value, 0), LAMBDA pos :
       IF IsSome(node.children)
       THEN
         With(Unwrap(node.children), LAMBDA children :
         With(pos < Len(node.samples), LAMBDA local :
         With(node_push_value(
                  children[pos + 1], value, cap,
                  has_parent_left \/ pos > 0,
                  IF local THEN Some(node.samples[pos + 1]) ELSE parent_right),
              LAMBDA sub :
         With(IF local THEN parent_right ELSE sub.parent_right, LAMBDA pr_out :
         With([samples  |-> IF local
                              THEN [node.samples EXCEPT
                                      ![pos + 1] = Unwrap(sub.parent_right)]
                              ELSE node.samples,
               children |-> Some([children EXCEPT ![pos + 1] = sub.node])],
              LAMBDA node1 :
            IF sub.result.tag = "Inserted" /\ sub.result.insert.tag = "PendingSplit"
            THEN With(insert_sample(node1, sub.result.insert.med,
                                    Some(sub.result.insert.right), pos),
                      LAMBDA ins :
                     [node |-> ins.node, result |-> PushResult_Inserted(ins.result),
                      parent_right |-> pr_out, ok |-> sub.ok])
            ELSE [node |-> node1, result |-> sub.result,
                  parent_right |-> pr_out, ok |-> sub.ok])))))
       ELSE push_value_leaf(node, value, pos, cap, has_parent_left, parent_right))

\* SamplesNode::insert_max_sample
RECURSIVE node_insert_max_sample(_, _)
node_insert_max_sample(node, sample) ==
    IF IsSome(node.children)
    THEN With(Unwrap(node.children), LAMBDA children :
         With(node_insert_max_sample(children[Len(children)], sample),
              LAMBDA sub :
         With([node EXCEPT !.children =
                              Some([children EXCEPT ![Len(children)] = sub.node])],
              LAMBDA node1 :
            IF sub.result.tag = "PendingSplit"
            THEN insert_sample(node1, sub.result.med, Some(sub.result.right),
                               Len(node.samples))
            ELSE [node |-> node1, result |-> sub.result])))
    ELSE insert_sample(node, sample, None, Len(node.samples))

---------------------------------------------------------------------------
(* SamplesTree: the root node, the number of stored samples and the depth *)

SamplesTree_new == [root |-> SamplesNode_new, len |-> 0, depth |-> 0]

handle_insert_result(tree, insert_result) ==
    IF insert_result.tag = "PendingSplit"
    THEN \* Splitting reached root tree: build new root node
         [root  |-> SamplesNode_with_samples(<<insert_result.med>>,
                        Some(<<tree.root, insert_result.right>>)),
          len   |-> tree.len + 1,
          depth |-> tree.depth + 1]
    ELSE [tree EXCEPT !.len = @ + 1]

\* SamplesTree::push_value. Returns the tree and whether the debug
\* assertions of the leaf held.
tree_push_value(tree, value, cap) ==
    With(node_push_value(tree.root, value, cap, FALSE, None), LAMBDA r :
    With([tree EXCEPT !.root = r.node], LAMBDA tree1 :
       [tree |-> IF r.result.tag = "Inserted"
                   THEN handle_insert_result(tree1, r.result.insert)
                   ELSE tree1,
        ok   |-> r.ok]))

\* SamplesTree::insert_max_sample
tree_insert_max_sample(tree, sample) ==
    With(node_insert_max_sample(tree.root, sample), LAMBDA r :
       handle_insert_result([tree EXCEPT !.root = r.node], r.result))

---------------------------------------------------------------------------
(* Iter: the by-reference iterator, a stack of <<node, position>> frames *)

RECURSIVE Iter_descend(_, _)
Iter_descend(stack, node) ==
    LET pushed == Append(stack, <<node, 0>>)
    IN IF IsSome(node.children)
       THEN Iter_descend(pushed, Unwrap(node.children)[1])
       ELSE pushed

Iter_new(node) == Iter_descend(<<>>, node)

\* One call of next: the item (None at the end), the stack left behind and
\* whether the call panicked (unwrap of the last frame of an empty stack)
RECURSIVE Iter_next(_)
Iter_next(stack) ==
    IF stack = <<>>
    THEN [item |-> None, stack |-> stack, panic |-> TRUE]
    ELSE
      LET top == Len(stack)
          last_node == stack[top][1]
          last_pos == stack[top][2]
      IN IF last_pos < Len(last_node.samples)
         THEN LET advanced == [stack EXCEPT ![top] = <<last_node, last_pos + 1>>]
              IN [item  |-> Some(last_node.samples[last_pos + 1]),
                  stack |-> IF IsSome(last_node.children)
                              THEN Iter_descend(advanced,
                                       Unwrap(last_node.children)[last_pos + 2])
                              ELSE advanced,
                  panic |-> FALSE]
         ELSE \* Reached end of the node at the end of the stack
              LET popped == SubSeq(stack, 1, top - 1)
              IN IF popped = <<>>
                 THEN [item |-> None, stack |-> popped, panic |-> FALSE]
                 ELSE Iter_next(popped)

\* Everything the iterator yields until its first None
RECURSIVE Iter_collect(_)
Iter_collect(stack) ==
    With(Iter_next(stack), LAMBDA r :
       IF IsSome(r.item)
       THEN <<Unwrap(r.item)>> \o Iter_collect(r.stack)
       ELSE <<>>)

\* Whether the iterator reaches its first None without a panic
RECURSIVE Iter_completes(_)
Iter_completes(stack) ==
    With(Iter_next(stack), LAMBDA r :
       ~r.panic /\ (IsSome(r.item) => Iter_completes(r.stack)))

\* SamplesTree::iter, collected
tree_iter(tree) == Iter_collect(Iter_new(tree.root))

\* The first n items of the iterator, and the iterator after them
RECURSIVE Iter_take(_, _)
Iter_take(stack, n) ==
    IF n = 0 THEN [items |-> <<>>, stack |-> stack]
    ELSE IF n = 1
    THEN With(Iter_next(stack), LAMBDA r :
            [items |-> <<Unwrap(r.item)>>, stack |-> r.stack])
    ELSE With(Iter_take(stack, n \div 2), LAMBDA a :
         With(Iter_take(a.stack, n - n \div 2), LAMBDA b :
            [items |-> a.items \o b.items, stack |-> b.stack]))

\* SamplesTree::iter over a tree of many samples: its len() items
tree_iter_len(tree) == Iter_take(Iter_new(tree.root), tree.len).items

---------------------------------------------------------------------------
(* IntoIter: the by-value iterator *)

NextSource_Sample == [tag |-> "Sample"]

NextSource_Child(it) == [tag |-> "Child", iter |-> it]

\* Variant: the children are left out of the traversal
IntoIter_new_without_children(samples, children) ==
    [samples |-> samples, children |-> None, next_source |-> NextSource_Sample]

RECURSIVE IntoIter_new(_, _)
IntoIter_new(samples, children) ==
    \* prepare_next_child: pop the first child and iterate it first
    IF IsSome(children)
    THEN LET some_children == Unwrap(children)
             first == some_children[1]
             rest == Tail(some_children)
         IN [samples     |-> samples,
             children    |-> IF rest = <<>> THEN None ELSE Some(rest),
             next_source |-> NextSource_Child(
                                 IntoIter_new(first.samples, first.children))]
    ELSE [samples |-> samples, children |-> None,
          next_source |-> NextSource_Sample]

RECURSIVE IntoIter_next(_)
IntoIter_next(it) ==
    IF it.next_source.tag = "Child"
    THEN With(IntoIter_next(it.next_source.iter), LAMBDA sub :
            IF IsSome(sub.item)
            THEN [item |-> sub.item,
                  iter |-> [it EXCEPT !.next_source = NextSource_Child(sub.iter)]]
            ELSE \* This child finished
                 IntoIter_next([it EXCEPT !.next_source = NextSource_Sample]))
    ELSE IF it.samples = <<>>
         THEN [item |-> None, iter |-> it]
         ELSE LET prepared == IntoIter_new(Tail(it.samples), it.children)
              IN [item |-> Some(Head(it.samples)), iter |-> prepared]

\* Everything the iterator yields until its first None
RECURSIVE IntoIter_collect(_)
IntoIter_collect(it) ==
    With(IntoIter_next(it), LAMBDA r :
       IF IsSome(r.item)
       THEN <<Unwrap(r.item)>> \o IntoIter_collect(r.iter)
       ELSE <<>>)

\* SamplesTree::into_iter
tree_into_iter(tree) == IntoIter_new(tree.root.samples, tree.root.children)

\* Number of samples stored in a node and below it
RECURSIVE SamplesNode_count(_)
SamplesNode_count(node) ==
    LET RECURSIVE sum(_)
        sum(children) ==
            IF children = <<>> THEN 0
            ELSE SamplesNode_count(Head(children)) + sum(Tail(children))
    IN Len(node.samples)
       + (IF IsSome(node.children) THEN sum(Unwrap(node.children)) ELSE 0)

\* Number of samples the iterator still yields: the turns of a `for` loop
\* over it
RECURSIVE IntoIter_remaining(_)
IntoIter_remaining(it) ==
    SamplesNode_count([samples |-> it.samples, children |-> it.children])
    + (IF it.next_source.tag = "Child"
         THEN IntoIter_remaining(it.next_source.iter)
         ELSE 0)

---------------------------------------------------------------------------
(* SamplesCompressor *)

SamplesCompressor_new(max_g_delta) ==
    [max_g_delta |-> max_g_delta,
     compressed_samples |-> SamplesTree_new,
     block_tail |-> None]

\* Variant: a sample added to the block does not take over the g of the
\* block
SamplesCompressor_push_g_dropped(c, sample) ==
    IF IsSome(c.block_tail)
    THEN With(Unwrap(c.block_tail), LAMBDA tail_sample :
            IF tail_sample.g + sample.g + sample.delta <= c.max_g_delta
            THEN [c EXCEPT !.block_tail = Some(sample)]
            ELSE [c EXCEPT !.compressed_samples =
                               tree_insert_max_sample(@, tail_sample),
                           !.block_tail = Some(sample)])
    ELSE IF c.compressed_samples.len = 0
         THEN [c EXCEPT !.compressed_samples = tree_insert_max_sample(@, sample)]
         ELSE [c EXCEPT !.block_tail = Some(sample)]

\* Variant: the first sample starts a block instead of being committed
SamplesCompressor_push_block_first(c, sample) ==
    IF IsSome(c.block_tail)
    THEN With(Unwrap(c.block_tail), LAMBDA tail_sample :
            IF tail_sample.g + sample.g + sample.delta <= c.max_g_delta
            THEN [c EXCEPT !.block_tail =
                               Some([sample EXCEPT !.g = @ + tail_sample.g])]
            ELSE [c EXCEPT !.compressed_samples =
                               tree_insert_max_sample(@, tail_sample),
                           !.block_tail = Some(sample)])
    ELSE [c EXCEPT !.block_tail = Some(sample)]

\* Variant: the delta of the new sample is not counted against the limit
SamplesCompressor_push_delta_ignored(c, sample) ==
    IF IsSome(c.block_tail)
    THEN With(Unwrap(c.block_tail), LAMBDA tail_sample :
            IF tail_sample.g + sample.g <= c.max_g_delta
            THEN [c EXCEPT !.block_tail =
                               Some([sample EXCEPT !.g = @ + tail_sample.g])]
            ELSE [c EXCEPT !.compressed_samples =
                               tree_insert_max_sample(@, tail_sample),
                           !.block_tail = Some(sample)])
    ELSE IF c.compressed_samples.len = 0
         THEN [c EXCEPT !.compressed_samples = tree_insert_max_sample(@, sample)]
         ELSE [c EXCEPT !.block_tail = Some(sample)]

SamplesCompressor_push(c, sample) ==
    IF IsSome(c.block_tail)
    THEN With(Unwrap(c.block_tail), LAMBDA tail_sample :
            IF tail_sample.g + sample.g + sample.delta <= c.max_g_delta
            THEN \* Add new sample to the current compression block
                 [c EXCEPT !.block_tail =
                               Some([sample EXCEPT !.g = @ + tail_sample.g])]
            ELSE \* Commit previous block and start new
                 [c EXCEPT !.compressed_samples =
                               tree_insert_max_sample(@, tail_sample),
                           !.block_tail = Some(sample)])
    ELSE IF c.compressed_samples.len = 0
         THEN \* Commit minimum
              [c EXCEPT !.compressed_samples = tree_insert_max_sample(@, sample)]
         ELSE \* Start first block
              [c EXCEPT !.block_tail = Some(sample)]

\* Variant: the last block is committed as two samples, its tail and a
\* sample that stands for the rest of it
SamplesCompressor_into_samples_tree_split(c) ==
    IF IsSome(c.block_tail)
    THEN tree_insert_max_sample(
             tree_insert_max_sample(c.compressed_samples,
                                    [Unwrap(c.block_tail) EXCEPT !.g = 0]),
             Unwrap(c.block_tail))
    ELSE c.compressed_samples

SamplesCompressor_into_samples_tree(c) ==
    IF IsSome(c.block_tail)
    THEN tree_insert_max_sample(c.compressed_samples, Unwrap(c.block_tail))
    ELSE c.compressed_samples

\* One turn of `for sample in iterator { compressor.push(sample) }` on the
\* pair st = [c, it]; nothing changes once the iterator is exhausted
push_turn(st) ==
    With(IntoIter_next(st.it), LAMBDA r :
       IF IsSome(r.item)
       THEN [c |-> SamplesCompressor_push(st.c, Unwrap(r.item)), it |-> r.iter]
       ELSE st)

\* n turns of that loop
RECURSIVE push_turns(_, _)
push_turns(st, n) ==
    IF n = 0 THEN st
    ELSE IF n = 1 THEN push_turn(st)
    ELSE With(push_turns(st, n \div 2), LAMBDA half :
            push_turns(half, n - n \div 2))

\* The whole loop: push everything left in a by-value iterator
push_all(c, it) == push_turns([c |-> c, it |-> it], IntoIter_remaining(it)).c

---------------------------------------------------------------------------
(* IncomingMergeState: a peekable cursor over one side of a merge *)

IncomingMergeState_new(it) ==
    With(IntoIter_next(it), LAMBDA r :
       [next_sample |-> r.item, iterator |-> r.iter, has_started |-> FALSE])

peek(m) == m.next_sample

\* pop_front: the popped sample and the cursor left behind
pop_front(m) ==
    With(IntoIter_next(m.iterator), LAMBDA r :
       [sample |-> Unwrap(m.next_sample),
        state  |-> [next_sample |-> r.item, iterator |-> r.iter,
                    has_started |-> TRUE]])

\* Variant: the samples of the other input are not accounted for
aditional_delta_none(m) == 0

\* Variant: whether the cursor was popped is not looked at
aditional_delta_unstarted(m) ==
    IF IsSome(m.next_sample)
    THEN Unwrap(m.next_sample).g + Unwrap(m.next_sample).delta - 1
    ELSE 0

aditional_delta(m) ==
    IF IsSome(m.next_sample) /\ m.has_started
    THEN Unwrap(m.next_sample).g + Unwrap(m.next_sample).delta - 1
    ELSE 0

push_remaining_to(m, c) ==
    IF IsSome(m.next_sample)
    THEN push_all(SamplesCompressor_push(c, Unwrap(m.next_sample)), m.iterator)
    ELSE c

---------------------------------------------------------------------------
(* Checkpoint: a captured sample with the least and the greatest number of *)
(* samples between the preceding checkpoint and this one                   *)

Checkpoint_new_exact(sample) == [sample |-> sample, min_gap |-> 1, max_gap |-> 1]

\* Variant: the new checkpoint is exact whatever follows it
Checkpoint_new_preceding_exact(sample, following) ==
    [sample |-> sample, min_gap |-> 1, max_gap |-> 1]

Checkpoint_new_preceding(sample, following) ==
    [sample |-> sample, min_gap |-> 1, max_gap |-> following.max_gap]

can_grow(checkpoint, maximal_gap) == checkpoint.max_gap + 1 <= maximal_gap

\* Variant: only the least gap is raised
record_before_min_gap_only(checkpoint) == [checkpoint EXCEPT !.min_gap = @ + 1]

record_before(checkpoint) ==
    [checkpoint EXCEPT !.min_gap = @ + 1, !.max_gap = @ + 1]

swap_sample(checkpoint, new_sample) == [checkpoint EXCEPT !.sample = new_sample]

---------------------------------------------------------------------------
(* Checkpoints: the list of checkpoints of a node *)

InsertResult_Done == [tag |-> "Done"]

InsertResult_Pending(med, right) == [tag |-> "Pending", med |-> med, right |-> right]

RecordResult_UpdatedInPlace == [tag |-> "UpdatedInPlace"]

RecordResult_Inserted(ir) == [tag |-> "Inserted", insert |-> ir]

\* Variant: the new checkpoint is the median of a split wherever it goes
Checkpoints_insert_checkpoint_new_median(checkpoints, checkpoint, pos) ==
    IF Len(checkpoints) < NODE_CAPACITY
    THEN [checkpoints |-> SeqInsert(checkpoints, pos, checkpoint),
          result |-> InsertResult_Done]
    ELSE [checkpoints |-> SeqUpTo(checkpoints, Len(checkpoints) \div 2),
          result |-> InsertResult_Pending(
                         checkpoint,
                         SeqFrom(checkpoints, Len(checkpoints) \div 2))]

\* Variant: the median of a split is the checkpoint after the middle
\* wherever the new checkpoint goes
Checkpoints_insert_checkpoint_fixed_median(checkpoints, checkpoint, pos) ==
    IF Len(checkpoints) < NODE_CAPACITY
    THEN [checkpoints |-> SeqInsert(checkpoints, pos, checkpoint),
          result |-> InsertResult_Done]
    ELSE
      LET med_pos == Len(checkpoints) \div 2
      IN IF pos <= med_pos
         THEN [checkpoints |-> SeqInsert(SeqUpTo(checkpoints, med_pos),
                                         pos, checkpoint),
               result |-> InsertResult_Pending(checkpoints[med_pos + 1],
                                               SeqFrom(checkpoints, med_pos + 1))]
         ELSE [checkpoints |-> SeqUpTo(checkpoints, med_pos),
               result |-> InsertResult_Pending(
                              checkpoints[med_pos + 1],
                              SeqInsert(SeqFrom(checkpoints, med_pos + 1),
                                        pos - med_pos - 1, checkpoint))]

\* Variant: a list is taken to be full when it holds two checkpoints
Checkpoints_insert_checkpoint_early_split(checkpoints, checkpoint, pos) ==
    IF Len(checkpoints) < 2
    THEN [checkpoints |-> SeqInsert(checkpoints, pos, checkpoint),
          result |-> InsertResult_Done]
    ELSE
      LET med_pos == Len(checkpoints) \div 2
      IN IF pos < med_pos
         THEN [checkpoints |-> SeqInsert(SeqUpTo(checkpoints, med_pos - 1),
                                         pos, checkpoint),
               result |-> InsertResult_Pending(checkpoints[med_pos],
                                               SeqFrom(checkpoints, med_pos))]
         ELSE IF pos = med_pos
         THEN [checkpoints |-> SeqUpTo(checkpoints, med_pos),
               result |-> InsertResult_Pending(checkpoint,
                                               SeqFrom(checkpoints, med_pos))]
         ELSE [checkpoints |-> SeqUpTo(checkpoints, med_pos),
               result |-> InsertResult_Pending(
                              checkpoints[med_pos + 1],
                              SeqInsert(SeqFrom(checkpoints, med_pos + 1),
                                        pos - med_pos - 1, checkpoint))]

\* Insert a checkpoint; a full list is split into (left, median, right), the
\* list becoming left. Returns the list and the InsertResult.
Checkpoints_insert_checkpoint(checkpoints, checkpoint, pos) ==
    IF Len(checkpoints) < NODE_CAPACITY
    THEN [checkpoints |-> SeqInsert(checkpoints, pos, checkpoint),
          result |-> InsertResult_Done]
    ELSE
      LET med_pos == Len(checkpoints) \div 2
      IN IF pos < med_pos
         THEN [checkpoints |-> SeqInsert(SeqUpTo(checkpoints, med_pos - 1),
                                         pos, checkpoint),
               result |-> InsertResult_Pending(checkpoints[med_pos],
                                               SeqFrom(checkpoints, med_pos))]
         ELSE IF pos = med_pos
         THEN [checkpoints |-> SeqUpTo(checkpoints, med_pos),
               result |-> InsertResult_Pending(checkpoint,
                                               SeqFrom(checkpoints, med_pos))]
         ELSE [checkpoints |-> SeqUpTo(checkpoints, med_pos),
               result |-> InsertResult_Pending(
                              checkpoints[med_pos + 1],
                              SeqInsert(SeqFrom(checkpoints, med_pos + 1),
                                        pos - med_pos - 1, checkpoint))]

\* Variant: the first checkpoint greater than or equal to the sample is found
find_insertion_pos_not_less(checkpoints, sample, following) ==
    LET not_less == {i \in 1 .. Len(checkpoints) : checkpoints[i].sample >= sample}
    IN IF not_less = {}
       THEN [pos |-> Len(checkpoints), following |-> following]
       ELSE LET i == CHOOSE k \in not_less : \A j \in not_less : k <= j
            IN [pos |-> i - 1, following |-> checkpoints[i]]

\* The index of the first checkpoint greater than the sample and that
\* checkpoint, or the length of the list and the following checkpoint given
find_insertion_pos(checkpoints, sample, following) ==
    LET greater == {i \in 1 .. Len(checkpoints) : checkpoints[i].sample > sample}
    IN IF greater = {}
       THEN [pos |-> Len(checkpoints), following |-> following]
       ELSE LET i == CHOOSE k \in greater : \A j \in greater : k <= j
            IN [pos |-> i - 1, following |-> checkpoints[i]]

\* What `following` points to after the call: the reference returned by
\* find_insertion_pos is into the list when pos is inside it
following_stored(checkpoints, pos, updated) ==
    IF pos < Len(checkpoints) THEN [checkpoints EXCEPT ![pos + 1] = updated]
    ELSE checkpoints

following_passed(checkpoints, pos, following, updated) ==
    IF pos < Len(checkpoints) THEN following ELSE updated

---------------------------------------------------------------------------
(* Leaf, Trunk and Root: the nodes of the tree of checkpoints *)

Leaf_new == [kind |-> "Leaf", checkpoints |-> <<>>]

Leaf_insert_checkpoint(leaf, checkpoint, pos) ==
    With(Checkpoints_insert_checkpoint(leaf.checkpoints, checkpoint, pos),
         LAMBDA r :
       [node |-> [leaf EXCEPT !.checkpoints = r.checkpoints],
        result |-> IF r.result.tag = "Done" THEN InsertResult_Done
                   ELSE InsertResult_Pending(
                            r.result.med,
                            [kind |-> "Leaf", checkpoints |-> r.result.right])])

\* Returns the leaf, the checkpoint `following` refers to and the
\* RecordResult
Leaf_record_sample(leaf, sample, maximal_gap, following) ==
    With(find_insertion_pos(leaf.checkpoints, sample, following), LAMBDA found :
       IF can_grow(found.following, maximal_gap)
       THEN \* Drop
            With(record_before(found.following), LAMBDA grown :
               [node |-> [leaf EXCEPT !.checkpoints =
                             following_stored(@, found.pos, grown)],
                following |-> following_passed(leaf.checkpoints, found.pos,
                                               following, grown),
                result |-> RecordResult_UpdatedInPlace])
       ELSE \* Insert
            With(Leaf_insert_checkpoint(
                     leaf, Checkpoint_new_preceding(sample, found.following),
                     found.pos),
                 LAMBDA r :
               [node |-> r.node, following |-> following,
                result |-> RecordResult_Inserted(r.result)]))

\* Returns the leaf, the InsertResult and whether the debug assertion held
Leaf_insert_max_checkpoint(leaf, checkpoint) ==
    With(Leaf_insert_checkpoint(leaf, checkpoint, Len(leaf.checkpoints)),
         LAMBDA r :
       [node |-> r.node, result |-> r.result,
        ok |-> leaf.checkpoints = <<>>
               \/ checkpoint.sample
                    > leaf.checkpoints[Len(leaf.checkpoints)].sample])

Trunk_with_children(checkpoints, nodes) ==
    [kind |-> "Trunk", checkpoints |-> checkpoints, children |-> nodes]

Trunk_with_median(left_node, med_checkpoint, right_node) ==
    Trunk_with_children(<<med_checkpoint>>, <<left_node, right_node>>)

\* Variant: the node is inserted at the left of the child that was split
generic_insert_checkpoint_right_node_first(trunk, med_checkpoint, right_node, pos) ==
    With(Checkpoints_insert_checkpoint(trunk.checkpoints, med_checkpoint, pos),
         LAMBDA r :
       IF r.result.tag = "Done"
       THEN [node |-> Trunk_with_children(
                          r.checkpoints,
                          SeqInsert(trunk.children, pos, right_node)),
             result |-> InsertResult_Done]
       ELSE
         LET nodes == trunk.children
             med_pos == Len(nodes) \div 2
         IN IF pos < med_pos
            THEN [node |-> Trunk_with_children(
                               r.checkpoints,
                               SeqInsert(SeqUpTo(nodes, med_pos), pos,
                                         right_node)),
                  result |-> InsertResult_Pending(
                                 r.result.med,
                                 Trunk_with_children(r.result.right,
                                                     SeqFrom(nodes, med_pos)))]
            ELSE [node |-> Trunk_with_children(r.checkpoints,
                                               SeqUpTo(nodes, med_pos + 1)),
                  result |-> InsertResult_Pending(
                                 r.result.med,
                                 Trunk_with_children(
                                     r.result.right,
                                     SeqInsert(SeqFrom(nodes, med_pos + 1),
                                               pos - med_pos, right_node)))])

\* Insert a checkpoint and the node at its right; a full trunk is split
\* into (left, median, right). Returns the trunk (left) and the InsertResult.
generic_insert_checkpoint(trunk, med_checkpoint, right_node, pos) ==
    With(Checkpoints_insert_checkpoint(trunk.checkpoints, med_checkpoint, pos),
         LAMBDA r :
       IF r.result.tag = "Done"
       THEN [node |-> Trunk_with_children(
                          r.checkpoints,
                          SeqInsert(trunk.children, pos + 1, right_node)),
             result |-> InsertResult_Done]
       ELSE
         LET nodes == trunk.children
             med_pos == Len(nodes) \div 2
         IN IF pos < med_pos
            THEN [node |-> Trunk_with_children(
                               r.checkpoints,
                               SeqInsert(SeqUpTo(nodes, med_pos), pos + 1,
                                         right_node)),
                  result |-> InsertResult_Pending(
                                 r.result.med,
                                 Trunk_with_children(r.result.right,
                                                     SeqFrom(nodes, med_pos)))]
            ELSE [node |-> Trunk_with_children(r.checkpoints,
                                               SeqUpTo(nodes, med_pos + 1)),
                  result |-> InsertResult_Pending(
                                 r.result.med,
                                 Trunk_with_children(
                                     r.result.right,
                                     SeqInsert(SeqFrom(nodes, med_pos + 1),
                                               pos - med_pos, right_node)))])

\* Node::record_sample of a leaf or a trunk (Trunk::generic_record_sample):
\* returns the node, the checkpoint `following` refers to and the
\* RecordResult
RECURSIVE Node_record_sample(_, _, _, _)
Node_record_sample(node, sample, maximal_gap, following) ==
    IF node.kind = "Leaf"
    THEN Leaf_record_sample(node, sample, maximal_gap, following)
    ELSE
      With(find_insertion_pos(node.checkpoints, sample, following), LAMBDA found :
      With(Node_record_sample(node.children[found.pos + 1], sample, maximal_gap,
                              found.following),
           LAMBDA below :
      With(Trunk_with_children(
               following_stored(node.checkpoints, found.pos, below.following),
               [node.children EXCEPT ![found.pos + 1] = below.node]),
           LAMBDA trunk :
      With(following_passed(node.checkpoints, found.pos, following,
                            below.following),
           LAMBDA passed :
         IF below.result.tag = "Inserted" /\ below.result.insert.tag = "Pending"
         THEN With(generic_insert_checkpoint(trunk, below.result.insert.med,
                                             below.result.insert.right,
                                             found.pos),
                   LAMBDA r :
                 [node |-> r.node, following |-> passed,
                  result |-> RecordResult_Inserted(r.result)])
         ELSE [node |-> trunk, following |-> passed,
               result |-> below.result]))))

\* The checkpoint `following` refers to once the descent of record_sample has
\* reached the leaf and the leaf has called find_insertion_pos
RECURSIVE Node_following(_, _, _)
Node_following(node, sample, following) ==
    With(find_insertion_pos(node.checkpoints, sample, following), LAMBDA found :
       IF node.kind = "Leaf" THEN found.following
       ELSE Node_following(node.children[found.pos + 1], sample,
                           found.following))

\* Node::insert_max_checkpoint of a leaf or a trunk
\* (Trunk::generic_insert_max_checkpoint): returns the node, the
\* InsertResult and whether the debug assertion of the leaf held
RECURSIVE Node_insert_max_checkpoint(_, _)
Node_insert_max_checkpoint(node, checkpoint) ==
    IF node.kind = "Leaf"
    THEN Leaf_insert_max_checkpoint(node, checkpoint)
    ELSE
      With(Len(node.children), LAMBDA last :
      With(Node_insert_max_checkpoint(node.children[last], checkpoint),
           LAMBDA below :
      With([node EXCEPT !.children[last] = below.node], LAMBDA trunk :
         IF below.result.tag = "Pending"
         THEN With(generic_insert_checkpoint(trunk, below.result.med,
                                             below.result.right,
                                             Len(trunk.checkpoints)),
                   LAMBDA r :
                 [node |-> r.node, result |-> r.result, ok |-> below.ok])
         ELSE [node |-> trunk, result |-> InsertResult_Done,
               ok |-> below.ok])))

\* Variant: the new root is built over the placeholder left in the root
\* instead of the node taken from it
generic_handle_insert_result_placeholder(root, insert_result) ==
    IF insert_result.tag = "Pending"
    THEN Trunk_with_median(Leaf_new, insert_result.med, insert_result.right)
    ELSE root

\* Root::generic_handle_insert_result: a split that reaches the root builds
\* a new root above it
generic_handle_insert_result(root, insert_result) ==
    IF insert_result.tag = "Pending"
    THEN Trunk_with_median(root, insert_result.med, insert_result.right)
    ELSE root

\* Variant: the root reports an insertion whatever the node reported
Root_record_sample_always_inserted(root, sample, maximal_gap, following) ==
    With(Node_record_sample(root, sample, maximal_gap, following), LAMBDA r :
       [node |-> IF r.result.tag = "Inserted"
                 THEN generic_handle_insert_result(r.node, r.result.insert)
                 ELSE r.node,
        following |-> r.following,
        result |-> RecordResult_Inserted(InsertResult_Done)])

Root_record_sample(root, sample, maximal_gap, following) ==
    With(Node_record_sample(root, sample, maximal_gap, following), LAMBDA r :
       [node |-> IF r.result.tag = "Inserted"
                 THEN generic_handle_insert_result(r.node, r.result.insert)
                 ELSE r.node,
        following |-> r.following,
        result |-> IF r.result.tag = "Inserted"
                   THEN RecordResult_Inserted(InsertResult_Done)
                   ELSE RecordResult_UpdatedInPlace])

\* Variant: a split that reaches the root is dropped, the root remaining the
\* left half
Root_insert_max_checkpoint_split_dropped(root, checkpoint) ==
    With(Node_insert_max_checkpoint(root, checkpoint), LAMBDA r :
       [node |-> r.node, result |-> InsertResult_Done, ok |-> r.ok])

Root_insert_max_checkpoint(root, checkpoint) ==
    With(Node_insert_max_checkpoint(root, checkpoint), LAMBDA r :
       [node |-> generic_handle_insert_result(r.node, r.result),
        result |-> InsertResult_Done, ok |-> r.ok])

\* The depths of the leaves below a node, the node itself at depth 1
RECURSIVE LeafDepths(_)
LeafDepths(node) ==
    IF node.kind = "Leaf" THEN {1}
    ELSE UNION {{d + 1 : d \in LeafDepths(node.children[i])} :
                  i \in 1 .. Len(node.children)}

\* The number of nodes at and below a node
RECURSIVE NodeCount(_)
RECURSIVE NodeCount_from(_, _)
NodeCount(node) ==
    IF node.kind = "Leaf" THEN 1 ELSE 1 + NodeCount_from(node, 1)

\* The number of nodes at and below the children of a node from the i-th on
NodeCount_from(node, i) ==
    IF i > Len(node.children) THEN 0
    ELSE NodeCount(node.children[i]) + NodeCount_from(node, i + 1)

\* Whether a node and every node below it hold at most NODE_CAPACITY
\* checkpoints, and at least half of it unless the node is the root
RECURSIVE Occupancy(_, _)
Occupancy(node, is_root) ==
    /\ Len(node.checkpoints) <= NODE_CAPACITY
    /\ is_root \/ Len(node.checkpoints) >= NODE_CAPACITY \div 2
    /\ node.kind = "Trunk" =>
          /\ Len(node.children) = Len(node.checkpoints) + 1
          /\ \A i \in 1 .. Len(node.children) :
                Occupancy(node.children[i], FALSE)

\* Trunk::depth and Root::depth: the depth of the leftmost leaf
RECURSIVE depth(_)
depth(node) ==
    IF node.kind = "Leaf" THEN 1 ELSE 1 + depth(node.children[1])

---------------------------------------------------------------------------
(* The tree that records samples into checkpoints: the minimum sample and *)
(* the maximum checkpoint are kept outside the root                       *)

CheckpointsTree_new == [extremes |-> None, root |-> Leaf_new, num_checkpoints |-> 0]

\* SamplesTree::record_sample. Returns the tree, whether the debug assertion
\* held, and the tree a debug build is left with when it did not (the
\* maximum already replaced, the root and the count untouched)
record_sample(tree, sample, maximal_gap) ==
    IF ~IsSome(tree.extremes)
    THEN \* First sample
         [tree |-> [tree EXCEPT
                      !.extremes = Some(<<sample, Checkpoint_new_exact(sample)>>),
                      !.num_checkpoints = @ + 1],
          ok |-> TRUE, unwound |-> tree]
    ELSE
      With(Unwrap(tree.extremes)[1], LAMBDA min_sample :
      With(Unwrap(tree.extremes)[2], LAMBDA max_checkpoint :
         IF max_checkpoint.sample <= sample
         THEN \* A new global maximum: check for in-place compression
              IF can_grow(max_checkpoint, maximal_gap)
              THEN [tree |-> [tree EXCEPT !.extremes =
                                Some(<<min_sample,
                                       swap_sample(record_before(max_checkpoint),
                                                   sample)>>)],
                    ok |-> TRUE, unwound |-> tree]
              ELSE With([tree EXCEPT !.extremes =
                            Some(<<min_sample, Checkpoint_new_exact(sample)>>)],
                        LAMBDA replaced :
                   With(Root_insert_max_checkpoint(tree.root, max_checkpoint),
                        LAMBDA r :
                      [tree |-> [replaced EXCEPT !.root = r.node,
                                                 !.num_checkpoints = @ + 1],
                       ok |-> r.ok, unwound |-> replaced]))
         ELSE With(IF min_sample > sample THEN sample ELSE min_sample,
                   LAMBDA new_min :
              With(Root_record_sample(tree.root, sample, maximal_gap,
                                      max_checkpoint),
                   LAMBDA r :
                 [tree |-> [extremes |-> Some(<<new_min, r.following>>),
                            root |-> r.node,
                            num_checkpoints |->
                                tree.num_checkpoints
                                  + (IF r.result.tag = "Inserted" THEN 1 ELSE 0)],
                  ok |-> TRUE, unwound |-> tree]))))

\* The checkpoints below a node, in order
RECURSIVE Node_checkpoints(_)
RECURSIVE Node_checkpoints_from(_, _)
Node_checkpoints(node) ==
    IF node.kind = "Leaf" THEN node.checkpoints
    ELSE Node_checkpoints_from(node, 1)

\* Those of the children from the i-th on and of the checkpoints between them
Node_checkpoints_from(node, i) ==
    IF i > Len(node.children) THEN <<>>
    ELSE Node_checkpoints(node.children[i])
           \o (IF i <= Len(node.checkpoints) THEN <<node.checkpoints[i]>>
               ELSE <<>>)
           \o Node_checkpoints_from(node, i + 1)

\* Every checkpoint of the tree in order, the maximum kept outside the root
\* last
tree_checkpoints(tree) ==
    IF IsSome(tree.extremes)
    THEN Node_checkpoints(tree.root) \o <<Unwrap(tree.extremes)[2]>>
    ELSE <<>>

\* A checkpoint read as a sample: g = min_gap, delta = max_gap - min_gap
checkpoint_as_sample(checkpoint) ==
    Sample(checkpoint.sample, checkpoint.min_gap,
           checkpoint.max_gap - checkpoint.min_gap)

sample_as_checkpoint(sample) ==
    [sample |-> sample.value, min_gap |-> sample.g,
     max_gap |-> sample.g + sample.delta]

\* for sample in samples[k..=upto] { compressor.push(sample) }
RECURSIVE push_samples(_, _, _, _)
push_samples(c, samples, k, upto) ==
    IF k > upto THEN c
    ELSE IF k = upto THEN SamplesCompressor_push(c, samples[k])
    ELSE With(push_samples(c, samples, k, (k + upto) \div 2), LAMBDA half :
            push_samples(half, samples, (k + upto) \div 2 + 1, upto))

\* The root after insert_max_checkpoint of checkpoints[k..=upto], in order
RECURSIVE insert_max_checkpoints(_, _, _, _)
insert_max_checkpoints(root, checkpoints, k, upto) ==
    IF k > upto THEN root
    ELSE IF k = upto THEN Root_insert_max_checkpoint(root, checkpoints[k]).node
    ELSE With(insert_max_checkpoints(root, checkpoints, k, (k + upto) \div 2),
              LAMBDA half :
            insert_max_checkpoints(half, checkpoints, (k + upto) \div 2 + 1,
                                   upto))

\* The bulk compression: every checkpoint of the old tree is fed in order, as
\* a sample, to a fresh SamplesCompressor and the output of the compressor
\* is stored as the new tree, its last sample as the maximum
bulk_compress(tree, max_g_delta) ==
    IF ~IsSome(tree.extremes) THEN tree
    ELSE
      LET old == tree_checkpoints(tree)
          samples == [i \in 1 .. Len(old) |-> checkpoint_as_sample(old[i])]
          filled == push_samples(SamplesCompressor_new(max_g_delta), samples, 1,
                                 Len(samples))
          out == tree_iter_len(SamplesCompressor_into_samples_tree(filled))
          kept == [i \in 1 .. Len(out) |-> sample_as_checkpoint(out[i])]
      IN [extremes |-> Some(<<Unwrap(tree.extremes)[1], kept[Len(kept)]>>),
          root |-> insert_max_checkpoints(Leaf_new, kept, 1, Len(kept) - 1),
          num_checkpoints |-> Len(kept)]

---------------------------------------------------------------------------
(* Rationals standing for the f64 arguments *)

Rat(num, den) == [num |-> num, den |-> den]

RatLeq(a, b) == a.num * b.den <= b.num * a.den

\* The values of epsilon the summaries are built with
EpsSet == {Rat(1, 4), Rat(3, 8)}

\* The quantiles queried, some of them outside [0, 1]
Quantiles == {Rat(k, QuantileSteps) : k \in (-1) .. (QuantileSteps + 1)}

ValidQuantiles == {q \in Quantiles : q.num >= 0 /\ q.num <= q.den}

\* Variant: only the lower end of the range is checked
quantile_in_range_lower(quantile) == quantile.num >= 0

\* lib.rs quantile_to_rank: panics when the quantile is out of range
quantile_in_range(quantile) == quantile.num >= 0 /\ quantile.num <= quantile.den

quantile_to_rank(quantile, num) ==
    Max2(CeilDiv(quantile.num * num, quantile.den), 1)

\* lib.rs rank_to_quantile, for 1 <= rank <= num
rank_to_quantile(rank, num) == IF rank = 1 THEN Rat(0, 1) ELSE Rat(rank, num)

---------------------------------------------------------------------------
(* Summary *)

\* `as u64` on an f64: a negative value saturates to 0
as_u64(x) == Max2(x, 0)

\* Variant: the ceiling is the rounded quotient 5 / max_expected_error
Summary_new_ceil_of_quotient(max_expected_error) ==
    [samples_tree |-> SamplesTree_new,
     max_samples |-> CeilDiv(5 * max_expected_error.den, max_expected_error.num),
     max_expected_error |-> max_expected_error,
     len |-> 0]

\* No check is made on max_expected_error; a negative one has a negative
\* inverse (the denominator of a rational is kept positive)
Summary_new(max_expected_error) ==
    LET expected_least_compressed_samples ==
            IF max_expected_error.num < 0
            THEN as_u64(-FloorDiv(max_expected_error.den,
                                  -max_expected_error.num))
            ELSE as_u64(CeilDiv(max_expected_error.den, max_expected_error.num))
    IN [samples_tree |-> SamplesTree_new,
        max_samples |-> 5 * expected_least_compressed_samples,
        max_expected_error |-> max_expected_error,
        len |-> 0]

\* Variant: the limit is floor(epsilon * len)
max_g_delta_single(s) ==
    as_u64(FloorDiv(s.max_expected_error.num * s.len, s.max_expected_error.den))

\* The current limit on g + delta: floor(2 * epsilon * len)
max_g_delta(s) ==
    as_u64(FloorDiv(2 * s.max_expected_error.num * s.len,
                    s.max_expected_error.den))

compress(s) ==
    LET compressor == SamplesCompressor_new(max_g_delta(s))
        filled == push_all(compressor, tree_into_iter(s.samples_tree))
    IN [s EXCEPT !.samples_tree = SamplesCompressor_into_samples_tree(filled)]

\* Returns the summary, whether the debug assertions held, the number of
\* samples stored once the value was pushed and whether the bulk compression
\* ran
insert_one(s, value) ==
    With([s EXCEPT !.len = @ + 1], LAMBDA s1 :
    With(tree_push_value(s1.samples_tree, value, max_g_delta(s1)), LAMBDA pushed :
    With([s1 EXCEPT !.samples_tree = pushed.tree], LAMBDA s2 :
    With(s2.samples_tree.len > s2.max_samples, LAMBDA over :
       [summary |-> IF over THEN compress(s2) ELSE s2,
        ok |-> pushed.ok,
        stored |-> s2.samples_tree.len,
        compressed |-> over]))))

\* One turn of the loop of merge_sorted_samples on
\* st = [self_input, other_input, compressor, samples_tree]; samples_tree is
\* None until a turn breaks out of the loop, and nothing changes afterwards
merge_turn(st) ==
    IF IsSome(st.samples_tree) THEN st
    ELSE IF ~IsSome(peek(st.self_input))
    THEN [st EXCEPT !.samples_tree =
             Some(SamplesCompressor_into_samples_tree(
                      push_remaining_to(st.other_input, st.compressor)))]
    ELSE IF ~IsSome(peek(st.other_input))
    THEN [st EXCEPT !.samples_tree =
             Some(SamplesCompressor_into_samples_tree(
                      push_remaining_to(st.self_input, st.compressor)))]
    ELSE IF Unwrap(peek(st.self_input)).value < Unwrap(peek(st.other_input)).value
    THEN With(pop_front(st.self_input), LAMBDA p :
            [st EXCEPT
               !.self_input = p.state,
               !.compressor =
                   SamplesCompressor_push(@,
                       [p.sample EXCEPT
                          !.delta = @ + aditional_delta(st.other_input)])])
    ELSE With(pop_front(st.other_input), LAMBDA p :
            [st EXCEPT
               !.other_input = p.state,
               !.compressor =
                   SamplesCompressor_push(@,
                       [p.sample EXCEPT
                          !.delta = @ + aditional_delta(st.self_input)])])

\* n turns of that loop
RECURSIVE merge_turns(_, _)
merge_turns(st, n) ==
    IF n = 0 THEN st
    ELSE IF n = 1 THEN merge_turn(st)
    ELSE With(merge_turns(st, n \div 2), LAMBDA half :
            merge_turns(half, n - n \div 2))

\* The loop runs one turn for each sample of the two inputs and one to break
merge_sorted_samples(s, other_samples, other_len) ==
    With([s EXCEPT !.len = @ + other_len], LAMBDA s1 :
    With(tree_into_iter(s.samples_tree), LAMBDA self_samples :
       [s1 EXCEPT !.samples_tree =
           Unwrap(merge_turns(
                      [self_input   |-> IncomingMergeState_new(self_samples),
                       other_input  |-> IncomingMergeState_new(other_samples),
                       compressor   |-> SamplesCompressor_new(max_g_delta(s1)),
                       samples_tree |-> None],
                      IntoIter_remaining(self_samples)
                        + IntoIter_remaining(other_samples) + 1).samples_tree)]))

\* Variant: the merged summary is counted by its samples
merge_counting_samples(s, other) ==
    merge_sorted_samples(s, tree_into_iter(other.samples_tree),
                         other.samples_tree.len)

\* Variant: an equal tolerance is refused too
merge_allowed_strict(s, other) ==
    ~RatLeq(s.max_expected_error, other.max_expected_error)

\* The assertion of merge on the error tolerances
merge_allowed(s, other) == RatLeq(other.max_expected_error, s.max_expected_error)

merge(s, other) ==
    merge_sorted_samples(s, tree_into_iter(other.samples_tree), other.len)

\* Variant: the two sides of the middle rank are exchanged
RECURSIVE rank_errors_exchanged(_, _, _)
rank_errors_exchanged(samples, min_rank0, target_rank) ==
    IF samples = <<>> THEN <<>>
    ELSE With(Head(samples), LAMBDA sample :
         With(min_rank0 + sample.g, LAMBDA min_rank :
         With(min_rank + sample.delta, LAMBDA max_rank :
         With((min_rank + max_rank) \div 2, LAMBDA mid_rank :
            <<[sample |-> sample,
               max_rank_error |-> IF target_rank > mid_rank
                                    THEN max_rank - target_rank
                                    ELSE target_rank - min_rank]>>
            \o rank_errors_exchanged(Tail(samples), min_rank, target_rank)))))

\* The candidates of query_with_error in traversal order: each sample with
\* the maximum rank error of choosing it
RECURSIVE rank_errors(_, _, _)
rank_errors(samples, min_rank0, target_rank) ==
    IF samples = <<>> THEN <<>>
    ELSE With(Head(samples), LAMBDA sample :
         With(min_rank0 + sample.g, LAMBDA min_rank :
         With(min_rank + sample.delta, LAMBDA max_rank :
         With((min_rank + max_rank) \div 2, LAMBDA mid_rank :
            <<[sample |-> sample,
               max_rank_error |-> IF target_rank > mid_rank
                                    THEN target_rank - min_rank
                                    ELSE max_rank - target_rank]>>
            \o rank_errors(Tail(samples), min_rank, target_rank)))))

\* Variant: the first of the maximal elements
RECURSIVE max_by_key(_, _)
max_by_key(candidates, best) ==
    IF candidates = <<>> THEN best
    ELSE With(Head(candidates), LAMBDA c :
            IF ~IsSome(best) \/ c.max_rank_error > Unwrap(best).max_rank_error
            THEN max_by_key(Tail(candidates), Some(c))
            ELSE max_by_key(Tail(candidates), best))

\* Variant: the last of the minimal elements
RECURSIVE min_by_key_last(_, _)
min_by_key_last(candidates, best) ==
    IF candidates = <<>> THEN best
    ELSE With(Head(candidates), LAMBDA c :
            IF ~IsSome(best) \/ c.max_rank_error <= Unwrap(best).max_rank_error
            THEN min_by_key_last(Tail(candidates), Some(c))
            ELSE min_by_key_last(Tail(candidates), best))

\* Iterator::min_by_key: the first of the minimal elements
RECURSIVE min_by_key(_, _)
min_by_key(candidates, best) ==
    IF candidates = <<>> THEN best
    ELSE With(Head(candidates), LAMBDA c :
            IF ~IsSome(best) \/ c.max_rank_error < Unwrap(best).max_rank_error
            THEN min_by_key(Tail(candidates), Some(c))
            ELSE min_by_key(Tail(candidates), best))

\* The failed assertion of quantile_to_rank
QueryPanic == [tag |-> "panic", error |-> "InvalidQuantile"]

QueryNone == [tag |-> "None"]

query_with_error(s, quantile) ==
    IF ~quantile_in_range(quantile) THEN QueryPanic
    ELSE With(quantile_to_rank(quantile, s.len), LAMBDA target_rank :
         With(min_by_key(
                  rank_errors(tree_iter(s.samples_tree), 0, target_rank), None),
              LAMBDA best :
            IF IsSome(best)
            THEN [tag |-> "Some", value |-> Unwrap(best).sample.value,
                  error |-> Rat(Unwrap(best).max_rank_error, s.len)]
            ELSE QueryNone))

query(s, q) ==
    With(query_with_error(s, q), LAMBDA r :
       IF r.tag = "Some" THEN [tag |-> "Some", value |-> r.value] ELSE r)

---------------------------------------------------------------------------
(* State *)


\* summaries : the Summary objects of the program, by name
\* alive     : whether the summary is still owned by the program (merge
\*             moves its argument away)
\* stream    : ghost, the bag of the values a summary stands for
\* hist      : ghost, what has been done to a summary
\* result    : what the last call returned
\* ctree     : a tree of checkpoints (algorithm::samples_tree::SamplesTree)
\* fed       : ghost, the record_sample calls made on ctree

Ids == {"A", "B", "C"}

Values == 1 .. MaxVal

\* History of a fresh summary
NoHist ==
    [inserts |-> 0, merged_len |-> 0, auto_compressions |-> 0,
     compress_dropped |-> 0, stored |-> 0]

\* Nothing was recorded into ctree; `order` is the order of the values, any
\* order until one of the streams of SpecCheckpoints is begun
\* `compressed` is the number of samples recorded when ctree was last rebuilt
\* by a bulk compression, 0 if it never was, `split` is whether a node was
\* split since, and `last` holds the arguments of the last record_sample
NoFeed ==
    [n |-> 0, order |-> "any", values |-> EmptyBag, compressed |-> 0,
     split |-> FALSE, last |-> [sample |-> 0, maximal_gap |-> 0]]

\* What the last call returned: (), a panic, or the Option of a query
Returned == [tag |-> "Done"]

Panicked(error) == [tag |-> "panic", error |-> error]

\* Number of values held by the summaries the program owns
TotalLen ==
    LET RECURSIVE Sum(_)
        Sum(S) == IF S = {} THEN 0
                  ELSE LET i == CHOOSE x \in S : TRUE
                       IN (IF alive[i] THEN summaries[i].len ELSE 0)
                          + Sum(S \ {i})
    IN Sum(DOMAIN summaries)

TypeOK ==
    /\ alive \in [DOMAIN summaries -> BOOLEAN]
    /\ \A i \in DOMAIN summaries :
          /\ summaries[i].len \in Nat
          /\ IsABag(stream[i])
          /\ hist[i].inserts \in Nat
    /\ result.tag \in {"Done", "panic", "None", "Some"}

\* No call of a list operation is in progress
NoCall == [op |-> "none"]

\* Summaries built by Summary::new over the names `ids`, those of `owned`
\* being the ones the program uses
Built(ids, owned, eps) ==
    /\ summaries = [i \in ids |-> Summary_new(eps[i])]
    /\ alive = [i \in ids |-> i \in owned]
    /\ stream = [i \in ids |-> EmptyBag]
    /\ hist = [i \in ids |-> NoHist]
    /\ result = Returned
    /\ ctree = CheckpointsTree_new
    /\ fed = NoFeed
    /\ call = NoCall

\* summaries[i].insert_one(v)
InsertOneCall(i, v) ==
    /\ alive[i]
    /\ LET r == insert_one(summaries[i], v)
       IN /\ summaries' = [summaries EXCEPT ![i] = r.summary]
          /\ hist' = [hist EXCEPT ![i].inserts = @ + 1,
                                  ![i].auto_compressions =
                                      @ + (IF r.compressed THEN 1 ELSE 0),
                                  ![i].stored = r.stored]
          /\ result' = IF r.ok THEN Returned ELSE Panicked("debug_assert")
    /\ stream' = [stream EXCEPT ![i] = @ (+) SetToBag({v})]
    /\ UNCHANGED <<alive, ctree, fed, call>>

\* summaries[i].compress()
CompressCall(i) ==
    /\ alive[i]
    /\ LET compressed == compress(summaries[i])
       IN /\ summaries' = [summaries EXCEPT ![i] = compressed]
          /\ hist' = [hist EXCEPT ![i].compress_dropped =
                                      @ + summaries[i].samples_tree.len
                                        - compressed.samples_tree.len]
    /\ result' = Returned
    /\ UNCHANGED <<alive, stream, ctree, fed, call>>

\* summaries[i].merge(summaries[j]): j is moved into the call and dropped
MergeCall(i, j) ==
    /\ i # j
    /\ alive[i] /\ alive[j]
    /\ alive' = [alive EXCEPT ![j] = FALSE]
    /\ UNCHANGED <<ctree, fed, call>>
    /\ IF merge_allowed(summaries[i], summaries[j])
       THEN /\ summaries' = [summaries EXCEPT
                               ![i] = merge(@, summaries[j]),
                               ![j] = Summary_new(@.max_expected_error)]
            /\ stream' = [stream EXCEPT ![i] = @ (+) stream[j],
                                        ![j] = EmptyBag]
            /\ hist' = [hist EXCEPT
                          ![i].merged_len = @ + summaries[j].len,
                          ![j] = NoHist]
            /\ result' = Returned
       ELSE /\ summaries' = [summaries EXCEPT
                               ![j] = Summary_new(@.max_expected_error)]
            /\ stream' = [stream EXCEPT ![j] = EmptyBag]
            /\ hist' = [hist EXCEPT ![j] = NoHist]
            /\ result' = Panicked("MergeErrorTolerance")

\* summaries[i].query(q)
QueryCall(i, q) ==
    /\ alive[i]
    /\ result' = query(summaries[i], q)
    /\ UNCHANGED <<summaries, alive, stream, hist, ctree, fed, call>>

\* summaries[i].query_with_error(q)
QueryWithErrorCall(i, q) ==
    /\ alive[i]
    /\ result' = query_with_error(summaries[i], q)
    /\ UNCHANGED <<summaries, alive, stream, hist, ctree, fed, call>>

---------------------------------------------------------------------------
(* Spec: two summaries, every operation *)

\* Two summaries, the tolerance of B at most that of A (the other case is
\* this one with the names exchanged)
Init ==
    \E eps \in {f \in [Ids -> EpsSet] :
                    f["C"] = f["B"] /\ RatLeq(f["B"], f["A"])} :
        Built(Ids, {"A", "B"}, eps)

InsertOne(i, v) == TotalLen < MaxLen /\ InsertOneCall(i, v)

Compress(i) == CompressCall(i)

Merge(i, j) == MergeCall(i, j)

Query(i, q) == QueryCall(i, q)

QueryWithError(i, q) == QueryWithErrorCall(i, q)

Next ==
    \/ \E i \in Ids, v \in Values : InsertOne(i, v)
    \/ \E i \in Ids : Compress(i)
    \/ \E i, j \in Ids : Merge(i, j)
    \/ \E i \in Ids, q \in Quantiles : Query(i, q)
    \/ \E i \in Ids, q \in Quantiles : QueryWithError(i, q)

Spec == Init /\ [][Next]_vars

---------------------------------------------------------------------------
(* SpecInsert: one fresh summary fed by insert_one alone, and queried *)

InitInsert == \E e \in EpsSet : Built(Ids, {"A"}, [i \in Ids |-> e])

InsertAlone(v) == summaries["A"].len < InsertLen /\ InsertOneCall("A", v)

QueryAlone(q) == QueryCall("A", q)

QueryWithErrorAlone(q) == QueryWithErrorCall("A", q)

NextInsert ==
    \/ \E v \in 1 .. InsertVal : InsertAlone(v)
    \/ \E q \in Quantiles : QueryAlone(q)
    \/ \E q \in Quantiles : QueryWithErrorAlone(q)

SpecInsert == InitInsert /\ [][NextInsert]_vars

---------------------------------------------------------------------------
(* SpecCompress: one summary fed by insert_one, compressed and queried *)

CompressAlone == CompressCall("A")

NextCompress ==
    \/ \E v \in 1 .. InsertVal : InsertAlone(v)
    \/ CompressAlone
    \/ \E q \in Quantiles : QueryAlone(q)

SpecCompress == InitInsert /\ [][NextCompress]_vars

---------------------------------------------------------------------------
(* SpecMerge: a stream dispatched over three summaries of one epsilon,   *)
(* which are then merged in any order and shape                          *)

InitMerge == \E e \in EpsSet : Built(Ids, Ids, [i \in Ids |-> e])

\* The stream is dispatched before the first merge
Dispatch(i, v) ==
    /\ TotalLen < MergeLen
    /\ \A k \in Ids : alive[k]
    /\ InsertOneCall(i, v)

MergePair(i, j) == MergeCall(i, j)

\* The queries are made on the summary everything was merged into
QueryMerged(i, q) ==
    /\ \A k \in Ids \ {i} : ~alive[k]
    /\ QueryCall(i, q)

NextMerge ==
    \/ \E i \in Ids, v \in Values : Dispatch(i, v)
    \/ \E i, j \in Ids : MergePair(i, j)
    \/ \E i \in Ids, q \in Quantiles : QueryMerged(i, q)

SpecMerge == InitMerge /\ [][NextMerge]_vars

---------------------------------------------------------------------------
(* SpecTree: the tree merge of modified_gk::test::check_tree_merge_error *)
(* over 2^TreeDepth summaries, each fed the same TreeFill values, the    *)
(* merged summary then receiving one more value                          *)

RECURSIVE Pow2(_)
Pow2(n) == IF n = 0 THEN 1 ELSE 2 * Pow2(n - 1)

TreeIds == 1 .. Pow2(TreeDepth)

\* The stream of a leaf of `fill` values: the minimum, the maximum, then
\* downwards from the maximum; c is the number of values the leaf already
\* holds
LeafValue(fill, c) == IF c = 0 THEN 0 ELSE fill + 1 - c

InitTree == Built(TreeIds, TreeIds, [i \in TreeIds |-> Rat(1, 4)])

\* The leaves are filled one after the other, each with `fill` values
FeedLeaf(fill, i) ==
    /\ summaries[i].len < fill
    /\ \A k \in DOMAIN summaries : k < i => summaries[k].len >= fill
    /\ InsertOneCall(i, LeafValue(fill, summaries[i].len))

\* s_i.merge(s_j) for the two roots of sibling subtrees of the merge tree
MergeSiblings(fill, i, j) ==
    /\ \A k \in DOMAIN summaries : alive[k] => summaries[k].len >= fill
    /\ alive[i] /\ alive[j]
    /\ summaries[i].len = summaries[j].len
    /\ LET width == summaries[i].len \div fill
       IN j = i + width /\ (i - 1) % (2 * width) = 0
    /\ MergeCall(i, j)

\* One more insert_one on the summary that holds all the `total` values
InsertLast(total, i) ==
    /\ summaries[i].len = total
    /\ InsertOneCall(i, 0)

TreeFeed(i) == FeedLeaf(TreeFill, i)

TreeMerge(i, j) == MergeSiblings(TreeFill, i, j)

TreeLast(i) == InsertLast(TreeFill * Pow2(TreeDepth), i)

NextTree ==
    \/ \E i \in TreeIds : TreeFeed(i)
    \/ \E i, j \in TreeIds : TreeMerge(i, j)
    \/ \E i \in TreeIds : TreeLast(i)

SpecTree == InitTree /\ [][NextTree]_vars

---------------------------------------------------------------------------
(* SpecCeiling: the same tree merge over 2^CeilingDepth summaries of     *)
(* CeilingFill values each, for every tolerance of EpsSet                *)

CeilingIds == 1 .. Pow2(CeilingDepth)

InitCeiling ==
    \E e \in EpsSet : Built(CeilingIds, CeilingIds, [i \in CeilingIds |-> e])

CeilingFeed(i) == FeedLeaf(CeilingFill, i)

\* The merges of one level of the tree are made from left to right
CeilingMerge(i, j) ==
    /\ \A k \in CeilingIds :
          (k < i /\ alive[k]) => summaries[k].len > summaries[i].len
    /\ MergeSiblings(CeilingFill, i, j)

CeilingLast(i) == InsertLast(CeilingFill * Pow2(CeilingDepth), i)

NextCeiling ==
    \/ \E i \in CeilingIds : CeilingFeed(i)
    \/ \E i, j \in CeilingIds : CeilingMerge(i, j)
    \/ \E i \in CeilingIds : CeilingLast(i)

SpecCeiling == InitCeiling /\ [][NextCeiling]_vars

---------------------------------------------------------------------------
(* SpecScenario: the stream of test insert_one_by_one_and_query fed to   *)
(* one summary, which is then compressed and queried at every rank        *)

ScenarioStream == <<8, 6, 0, 4, 3, 9, 2, 5, 1, 7>>

\* The tolerance of the test and two others
ScenarioEpsSet == {Rat(1, 5), Rat(1, 4), Rat(3, 8)}

InitScenario == \E e \in ScenarioEpsSet : Built(Ids, {"A"}, [i \in Ids |-> e])

ScenarioInsert ==
    /\ hist["A"].inserts < Len(ScenarioStream)
    /\ InsertOneCall("A", ScenarioStream[hist["A"].inserts + 1])

\* summary.compress(), once the stream is consumed
ScenarioCompress ==
    /\ hist["A"].inserts = Len(ScenarioStream)
    /\ CompressCall("A")

\* check_rank: summary.query_with_error(rank_to_quantile(rank, len))
ScenarioQuery(rank) ==
    /\ rank <= summaries["A"].len
    /\ QueryWithErrorCall("A", rank_to_quantile(rank, summaries["A"].len))

NextScenario ==
    \/ ScenarioInsert
    \/ ScenarioCompress
    \/ \E rank \in 1 .. Len(ScenarioStream) : ScenarioQuery(rank)

SpecScenario == InitScenario /\ [][NextScenario]_vars

---------------------------------------------------------------------------
(* SpecIter: trees built with a cap of 0, as in the test `iterators` of  *)
(* samples_tree: every value pushed is kept as a sample                  *)

\* Tolerances small enough for the cap floor(2 * epsilon * len) to be 0:
\* the first for the streams in any order, the second for the ascending one
IterEps == Rat(1, 512)

DeepEps == Rat(1, 1024)

InitIter == \E e \in {IterEps, DeepEps} : Built(Ids, {"A"}, [i \in Ids |-> e])

\* Any value, while the stream is short
IterInsert(v) ==
    /\ summaries["A"].max_expected_error = IterEps
    /\ summaries["A"].len < IterLen
    /\ InsertOneCall("A", v)

\* check(0..n): the values in ascending order
IterAscend ==
    /\ summaries["A"].max_expected_error = DeepEps
    /\ summaries["A"].len < IterDeep
    /\ InsertOneCall("A", summaries["A"].len)

\* The tree is rebuilt from its own samples with insert_max_sample
IterRebuild ==
    /\ summaries["A"].max_expected_error = DeepEps => summaries["A"].len >= IterDeep
    /\ CompressCall("A")

NextIter ==
    \/ \E v \in 0 .. IterVal : IterInsert(v)
    \/ IterAscend
    \/ IterRebuild

SpecIter == InitIter /\ [][NextIter]_vars

---------------------------------------------------------------------------
(* SpecCheckpoints: samples recorded into one tree of checkpoints, as in *)
(* the tests record_asc_depth_1, _2 and _3 of samples_tree               *)

\* tree.record_sample(sample, maximal_gap). When the debug assertion of the
\* leaf fails, a debug build panics and a release build goes on
RecordSampleCall(sample, maximal_gap, order) ==
    /\ result.tag # "panic"
    /\ LET r == record_sample(ctree, sample, maximal_gap)
       IN \/ ctree' = r.tree /\ result' = Returned
          \/ ~r.ok /\ ctree' = r.unwound /\ result' = Panicked("debug_assert")
    /\ fed' = [fed EXCEPT !.n = @ + 1, !.order = order,
                          !.values = @ (+) SetToBag({sample}),
                          !.last = [sample |-> sample,
                                    maximal_gap |-> maximal_gap],
                          !.split = fed.compressed > 0
                                    /\ (@ \/ NodeCount(ctree'.root)
                                               > NodeCount(ctree.root))]
    /\ UNCHANGED <<summaries, alive, stream, hist, call>>

InitCheckpoints == Built(Ids, {}, [i \in Ids |-> Rat(1, 4)])

\* Any sample with any maximal gap, while the stream is short
RecordAny(sample, maximal_gap) ==
    /\ fed.order = "any"
    /\ fed.n < CheckpointsShort
    /\ RecordSampleCall(sample, maximal_gap, "any")

\* Any sample with a maximal gap of 1: every sample becomes a checkpoint
RecordExact(sample) ==
    /\ fed.n = 0 \/ fed.order = "exact"
    /\ fed.n < CheckpointsLen
    /\ RecordSampleCall(sample, 1, "exact")

\* The k-th sample (from 0) of the three long streams: ascending (as in the
\* tests), descending, and from both ends towards the middle
DeepSample(order, k) ==
    IF order = "asc" THEN k
    ELSE IF order = "desc" THEN CheckpointsDeep - k
    ELSE IF k % 2 = 0 THEN k \div 2 ELSE CheckpointsDeep - (k \div 2)

\* tree.record_sample(i, 1) over a long stream of distinct samples
RecordDeep(order) ==
    /\ fed.n = 0 \/ fed.order = order
    /\ fed.n < CheckpointsDeep
    /\ RecordSampleCall(DeepSample(order, fed.n), 1, order)

\* One more sample recorded into the tree of a long stream, with room for
\* the checkpoint that follows it to grow
RecordProbe(sample) ==
    /\ fed.order \in {"asc", "desc", "mid"}
    /\ fed.n = CheckpointsDeep
    /\ RecordSampleCall(sample, CheckpointsGap, fed.order)

\* The tree is rebuilt by a bulk compression once it holds more checkpoints
\* than the ceiling, once in a behaviour
BulkCompressCall(budget) ==
    /\ result.tag # "panic"
    /\ fed.compressed = 0
    /\ ctree.num_checkpoints > CheckpointsCeiling
    /\ ctree' = bulk_compress(ctree, budget)
    /\ fed' = [fed EXCEPT !.compressed = fed.n]
    /\ result' = Returned
    /\ UNCHANGED <<summaries, alive, stream, hist, call>>

NextCheckpoints ==
    \/ \E sample \in 0 .. CheckpointsVal, maximal_gap \in {1, CheckpointsGap} :
          RecordAny(sample, maximal_gap)
    \/ \E sample \in 0 .. CheckpointsVal : RecordExact(sample)
    \/ \E order \in {"asc", "desc", "mid"} : RecordDeep(order)
    \/ \E sample \in 0 .. CheckpointsDeep + 1 : RecordProbe(sample)
    \/ \E budget \in {1, CheckpointsGap} : BulkCompressCall(budget)

SpecCheckpoints == InitCheckpoints /\ [][NextCheckpoints]_vars

---------------------------------------------------------------------------
(* SpecGaps: a program that owns summaries, as in Spec, or one tree of *)
(* checkpoints, as in SpecCheckpoints                                  *)

InitGaps == Init \/ InitCheckpoints

\* The program owns no summary
NoSummary == \A i \in Ids : ~alive[i]

NextGaps ==
    \/ Next
    \/ \E sample \in 0 .. CheckpointsVal, maximal_gap \in {1, CheckpointsGap} :
          NoSummary /\ RecordAny(sample, maximal_gap)
    \/ \E sample \in 0 .. CheckpointsVal : NoSummary /\ RecordExact(sample)
    \/ \E order \in {"asc", "desc", "mid"} : NoSummary /\ RecordDeep(order)
    \/ \E sample \in 0 .. CheckpointsDeep + 1 : NoSummary /\ RecordProbe(sample)
    \/ \E budget \in {1, CheckpointsGap} : NoSummary /\ BulkCompressCall(budget)

SpecGaps == InitGaps /\ [][NextGaps]_vars

---------------------------------------------------------------------------
(* SpecNew: summaries built with any tolerance, then fed and queried *)

\* The tolerances given to Summary::new, inside and outside (0, 1/2)
NewEpsSet == {Rat(-1, 4), Rat(1, 4), Rat(3, 8), Rat(1, 2), Rat(3, 4)}

\* No summary exists yet; the records of the unborn ones are placeholders
InitNew == Built(Ids, {}, [i \in Ids |-> Rat(1, 4)])

\* summaries[i] = Summary::new(e)
NewCall(i, e) ==
    /\ ~alive[i]
    /\ \A k \in Ids : alive[k] => summaries[k].len = 0
    /\ summaries' = [summaries EXCEPT ![i] = Summary_new(e)]
    /\ alive' = [alive EXCEPT ![i] = TRUE]
    /\ result' = Returned
    /\ UNCHANGED <<stream, hist, ctree, fed, call>>

InsertNew(i, v) == TotalLen < NewLen /\ InsertOneCall(i, v)

QueryNew(i, q) == QueryCall(i, q)

NextNew ==
    \/ \E i \in Ids, e \in NewEpsSet : NewCall(i, e)
    \/ \E i \in Ids, v \in Values : InsertNew(i, v)
    \/ \E i \in Ids, q \in Quantiles : QueryNew(i, q)

SpecNew == InitNew /\ [][NextNew]_vars

---------------------------------------------------------------------------
(* What the properties speak of *)

Abs(x) == IF x < 0 THEN -x ELSE x

\* The samples of summary i in traversal order
Samples(i) == tree_iter(summaries[i].samples_tree)

\* The summaries the program owns that hold at least one value
NonEmpty == {i \in DOMAIN summaries : alive[i] /\ summaries[i].len > 0}

\* Number of values of the bag below v, and up to v
CountBelow(B, v) ==
    BagCardinality([e \in {x \in BagToSet(B) : x < v} |-> B[e]])

CountUpTo(B, v) ==
    BagCardinality([e \in {x \in BagToSet(B) : x <= v} |-> B[e]])

\* In the sorted stream the copies of v occupy the positions
\* CountBelow + 1 .. CountUpTo: the distance from the rank to the nearest
RankDist(B, v, rank) ==
    IF rank < CountBelow(B, v) + 1 THEN CountBelow(B, v) + 1 - rank
    ELSE IF rank > CountUpTo(B, v) THEN rank - CountUpTo(B, v)
    ELSE 0

\* Quantiles that ask for each rank 1..n of a summary of n values
RankQuantiles(n) == {Rat(k, n) : k \in 0 .. n}

\* floor(epsilon * N) of summary i
MaxRankError(i) ==
    FloorDiv(summaries[i].max_expected_error.num * summaries[i].len,
             summaries[i].max_expected_error.den)

BagMin(B) == CHOOSE v \in BagToSet(B) : \A w \in BagToSet(B) : v <= w

BagMax(B) == CHOOSE v \in BagToSet(B) : \A w \in BagToSet(B) : v >= w

---------------------------------------------------------------------------
(* C1 *)

\* C1 (as stated): in a summary fed by insert_one alone, for every q the
\* value query(q) returns has a number of stream values <= it within
\* floor(epsilon * N) of quantile_to_rank(q, N)
C1_RankCountWithinBound ==
    \A q \in RankQuantiles(summaries["A"].len) :
        summaries["A"].len > 0 =>
            /\ query(summaries["A"], q).tag = "Some"
            /\ Abs(CountUpTo(stream["A"], query(summaries["A"], q).value)
                     - quantile_to_rank(q, summaries["A"].len))
                 <= MaxRankError("A")

\* C1 (amended): in a summary fed by insert_one alone, for every q the value
\* query(q) returns occupies, in the sorted stream, a position within
\* floor(epsilon * N) of quantile_to_rank(q, N)
C1_PositionWithinBound ==
    \A q \in RankQuantiles(summaries["A"].len) :
        summaries["A"].len > 0 =>
            /\ query(summaries["A"], q).tag = "Some"
            /\ RankDist(stream["A"], query(summaries["A"], q).value,
                        quantile_to_rank(q, summaries["A"].len))
                 <= MaxRankError("A")

\* A query has answered on a summary that stores fewer samples than it has
\* seen values, some of them equal
C1_Witness ==
    /\ result.tag = "Some" /\ "error" \notin DOMAIN result
    /\ summaries["A"].len >= 5
    /\ summaries["A"].samples_tree.len < summaries["A"].len
    /\ Cardinality(BagToSet(stream["A"])) < summaries["A"].len

---------------------------------------------------------------------------
(* C2 *)

\* C2 (as stated): whenever query_with_error(q) returns (v, e) on a summary
\* of N values, the number of values <= v differs from quantile_to_rank(q, N)
\* by at most e * N, in every state reached by insert_one, compression and
\* merge
C2_ErrorBoundsRankCount ==
    \A i \in NonEmpty : \A q \in RankQuantiles(summaries[i].len) :
        LET r == query_with_error(summaries[i], q)
        IN r.tag = "Some" =>
              Abs(CountUpTo(stream[i], r.value)
                    - quantile_to_rank(q, summaries[i].len)) * r.error.den
                <= r.error.num * summaries[i].len

\* C2 (amended): whenever query_with_error(q) returns (v, e) on a summary of
\* N values, v occupies in the sorted values a position that differs from
\* quantile_to_rank(q, N) by at most e * N, in every state reached by
\* insert_one, compression and merge
C2_ErrorBoundsPosition ==
    \A i \in NonEmpty : \A q \in RankQuantiles(summaries[i].len) :
        LET r == query_with_error(summaries[i], q)
        IN r.tag = "Some" =>
              RankDist(stream[i], r.value,
                       quantile_to_rank(q, summaries[i].len)) * r.error.den
                <= r.error.num * summaries[i].len

\* query_with_error has reported a non-zero error on a summary that was
\* merged into and that compress has dropped samples of
C2_Witness ==
    /\ result.tag = "Some" /\ "error" \in DOMAIN result
    /\ result.error.num > 0
    /\ \E i \in NonEmpty :
          /\ hist[i].merged_len > 0
          /\ hist[i].compress_dropped > 0
          /\ \E q \in Quantiles : result = query_with_error(summaries[i], q)

---------------------------------------------------------------------------
(* C3 *)

---------------------------------------------------------------------------
(* C4 *)

\* C4: in every non-empty state reached by insert_one, compression and
\* merge, query(0) returns the smallest value inserted or merged in and
\* query(1) the largest
C4_Extremes ==
    \A i \in NonEmpty :
        /\ query(summaries[i], Rat(0, 1))
             = [tag |-> "Some", value |-> BagMin(stream[i])]
        /\ query(summaries[i], Rat(1, 1))
             = [tag |-> "Some", value |-> BagMax(stream[i])]

\* query has returned the minimum of a summary that was merged into and
\* that compress has dropped samples of
C4_Witness ==
    /\ result.tag = "Some" /\ "error" \notin DOMAIN result
    /\ \E i \in NonEmpty :
          /\ hist[i].merged_len > 0
          /\ hist[i].compress_dropped > 0
          /\ BagMin(stream[i]) < BagMax(stream[i])
          /\ result.value = BagMin(stream[i])
          /\ \A j \in NonEmpty : j = i

---------------------------------------------------------------------------
(* C5 *)

\* C5 (as stated): after every insert_one, compression and merge, every
\* sample of the traversal has g + delta <= floor(2 * epsilon * len)
C5_GDeltaWithinCap ==
    \A i \in NonEmpty : \A k \in 1 .. Len(Samples(i)) :
        Samples(i)[k].g + Samples(i)[k].delta <= max_g_delta(summaries[i])

\* C5 (amended): after every insert_one, compression and merge, every sample
\* of the traversal has g + delta <= max(1, floor(2 * epsilon * len))
C5_GDeltaWithinCapOrOne ==
    \A i \in NonEmpty : \A k \in 1 .. Len(Samples(i)) :
        Samples(i)[k].g + Samples(i)[k].delta
            <= Max2(1, max_g_delta(summaries[i]))

\* A summary that was merged into and that compress has dropped samples of
\* holds a sample with a non-zero delta that reaches the limit exactly
C5_Witness ==
    \E i \in NonEmpty :
        /\ hist[i].merged_len > 0
        /\ hist[i].compress_dropped > 0
        /\ max_g_delta(summaries[i]) >= 2
        /\ \E k \in 1 .. Len(Samples(i)) :
              /\ Samples(i)[k].delta > 0
              /\ Samples(i)[k].g + Samples(i)[k].delta
                   = max_g_delta(summaries[i])

---------------------------------------------------------------------------
(* C6 *)

\* C6: after any sequence of operations, len() is the number of insert_one
\* calls made on the summary plus the sum of len() of every summary merged
\* into it, and compression and queries leave len() as it is
C6_LenConservation ==
    /\ \A i \in DOMAIN summaries :
          alive[i] =>
             /\ summaries[i].len = hist[i].inserts + hist[i].merged_len
             /\ compress(summaries[i]).len = summaries[i].len
    /\ \A i \in DOMAIN summaries :
          alive[i] => BagCardinality(stream[i]) = summaries[i].len

\* A summary that received values by insert_one and by merge, and that
\* compress has dropped samples of, has answered a query
C6_Witness ==
    /\ result.tag = "Some"
    /\ \E i \in NonEmpty :
          /\ hist[i].inserts >= 2
          /\ hist[i].merged_len >= 2
          /\ hist[i].compress_dropped > 0

---------------------------------------------------------------------------
(* C7 *)

\* C7: after every insert_one returns, the number of samples stored in the
\* summary is at most max_samples
C7_SamplesWithinMax ==
    [][\A i \in DOMAIN summaries :
          hist'[i].inserts = hist[i].inserts + 1 =>
             summaries'[i].samples_tree.len <= summaries'[i].max_samples]_vars

---------------------------------------------------------------------------
(* C8 *)

\* C8: for every reachable summary state, the number of samples after
\* compress is at most the number before it
C8_CompressNeverGrows ==
    \A i \in DOMAIN summaries :
        alive[i] =>
           compress(summaries[i]).samples_tree.len
               <= summaries[i].samples_tree.len

\* compress has dropped samples of a summary, which was queried afterwards
C8_Witness ==
    /\ hist["A"].compress_dropped > 0
    /\ summaries["A"].samples_tree.len < hist["A"].inserts
    /\ result.tag = "Some"

---------------------------------------------------------------------------
(* C9 *)

\* C9: on an empty summary query(q) and query_with_error(q) return nothing
\* for any q, in range or not; on a non-empty summary they return a value
\* for every q in [0, 1]
C9_AbsentIffEmpty ==
    \A i \in DOMAIN summaries :
        alive[i] =>
           /\ summaries[i].len = 0 =>
                 \A q \in Quantiles :
                    /\ query(summaries[i], q) = QueryNone
                    /\ query_with_error(summaries[i], q) = QueryNone
           /\ summaries[i].len > 0 =>
                 \A q \in ValidQuantiles :
                    /\ query(summaries[i], q).tag = "Some"
                    /\ query_with_error(summaries[i], q).tag = "Some"

---------------------------------------------------------------------------
(* C10 *)

\* C10: a query on a non-empty summary with q outside [0, 1] fails with the
\* invalid quantile error, and the summary is the same before and after
C10_InvalidQuantileFails ==
    [][\A i \in Ids : \A q \in Quantiles \ ValidQuantiles :
          (/\ summaries[i].len > 0
           /\ QueryCall(i, q) \/ QueryWithErrorCall(i, q))
             => /\ result' = QueryPanic
                /\ summaries' = summaries]_vars

\* A query has failed on the invalid quantile while every summary the
\* program owns held values, one of them merged into
C10_Witness ==
    /\ result = QueryPanic
    /\ \A i \in Ids : alive[i] => summaries[i].len > 0
    /\ \E i \in NonEmpty : hist[i].merged_len > 0

---------------------------------------------------------------------------
(* C11 *)

\* C11: self.merge(other) returns when the tolerance of other is at most the
\* tolerance of self, and then self counts the values of both; it fails with
\* the tolerance error when the tolerance of other is greater, and then self
\* is exactly as it was before the call.
C11_MergeTolerance ==
    [][\A i, j \in Ids :
          (i # j /\ alive[i] /\ alive[j] /\ ~alive'[j]) =>
              IF RatLeq(summaries[j].max_expected_error,
                        summaries[i].max_expected_error)
              THEN /\ result' = Returned
                   /\ summaries'[i].len = summaries[i].len + summaries[j].len
              ELSE /\ result' = Panicked("MergeErrorTolerance")
                   /\ summaries'[i] = summaries[i]]_vars

\* A merge was refused while the receiving summary held samples
C11_Witness ==
    /\ result = Panicked("MergeErrorTolerance")
    /\ \E i \in Ids : alive[i] /\ summaries[i].samples_tree.len > 1

---------------------------------------------------------------------------
(* C12 *)

\* C12: every summary that exists has a tolerance strictly between 0 and
\* 1/2 (Summary::new refuses every other one), and a summary that was fed
\* nothing is empty with len = 0.
C12_EpsilonValidated ==
    \A i \in Ids :
        alive[i] =>
            /\ summaries[i].max_expected_error.num > 0
            /\ 2 * summaries[i].max_expected_error.num
                  < summaries[i].max_expected_error.den
            /\ (hist[i].inserts = 0 =>
                    summaries[i].len = 0 /\ summaries[i].samples_tree.len = 0)

---------------------------------------------------------------------------
(* C13 *)

\* The tolerances of the claim: strictly between 0 and 1/2
ValidEpsilon(e) == e.num > 0 /\ 2 * e.num < e.den

\* insert_one ran the bulk compression exactly when the number of samples
\* stored once the value was recorded was above max_samples
CompressionAtCeiling ==
    \A i \in DOMAIN summaries :
        hist'[i].inserts = hist[i].inserts + 1 =>
            (hist'[i].auto_compressions = hist[i].auto_compressions + 1
               <=> hist'[i].stored > summaries[i].max_samples)

\* C13 as stated: for every tolerance in (0, 1/2) the ceiling set at
\* construction is ceil(5 / epsilon), and insert_one runs the bulk
\* compression exactly when the count stored after recording the value is
\* strictly greater than the ceiling.
C13_CeilingCeilOfQuotient ==
    /\ [](\A i \in DOMAIN summaries :
            ValidEpsilon(summaries[i].max_expected_error) =>
                summaries[i].max_samples =
                    CeilDiv(5 * summaries[i].max_expected_error.den,
                            summaries[i].max_expected_error.num))
    /\ [][CompressionAtCeiling]_vars

\* C13 amended: the ceiling is 5 * ceil(1 / epsilon), and insert_one runs the
\* bulk compression exactly when the count stored after recording the value
\* is strictly greater than it.
C13_CeilingFiveTimesCeil ==
    /\ [](\A i \in DOMAIN summaries :
            ValidEpsilon(summaries[i].max_expected_error) =>
                summaries[i].max_samples =
                    5 * CeilDiv(summaries[i].max_expected_error.den,
                                summaries[i].max_expected_error.num))
    /\ [][CompressionAtCeiling]_vars

\* insert_one ran the bulk compression on a summary whose two ceilings differ
C13_Witness ==
    \E i \in DOMAIN summaries :
        /\ alive[i]
        /\ hist[i].auto_compressions > 0
        /\ hist[i].stored > summaries[i].max_samples
        /\ summaries[i].max_samples #
              CeilDiv(5 * summaries[i].max_expected_error.den,
                      summaries[i].max_expected_error.num)

---------------------------------------------------------------------------
(* C14 *)

\* The samples (value, g, delta) of summary A in traversal order
SampleSpecs == [k \in DOMAIN Samples("A") |->
                   <<Samples("A")[k].value, Samples("A")[k].g,
                     Samples("A")[k].delta>>]

\* The state of the test once the ten values are inserted
ScenarioFed ==
    /\ summaries["A"].max_expected_error = Rat(1, 5)
    /\ hist["A"].inserts = Len(ScenarioStream)

\* C14: with epsilon = 0.2 the ten values 8, 6, 0, 4, 3, 9, 2, 5, 1, 7 leave
\* the samples (0,1,0), (2,2,1), (4,2,0), (6,2,0), (9,3,0); a bulk compression
\* then leaves (0,1,0), (4,4,0), (6,2,0), (9,3,0); and the queries for the
\* ranks 1..10 then return 0,0,0,4,4,4,6,6,9,9 with the rank errors
\* 0,1,2,1,0,1,0,1,1,0.
C14_Scenario ==
    /\ []((ScenarioFed /\ hist["A"].compress_dropped = 0) =>
             SampleSpecs = <<<<0, 1, 0>>, <<2, 2, 1>>, <<4, 2, 0>>,
                             <<6, 2, 0>>, <<9, 3, 0>>>>)
    /\ [][(ScenarioFed /\ hist["A"].compress_dropped = 0
            /\ result' = Returned) =>
             SampleSpecs' = <<<<0, 1, 0>>, <<4, 4, 0>>, <<6, 2, 0>>,
                              <<9, 3, 0>>>>]_vars
    /\ []((ScenarioFed /\ hist["A"].compress_dropped > 0) =>
             \A rank \in 1 .. 10 :
                 query_with_error(summaries["A"], rank_to_quantile(rank, 10))
                   = [tag |-> "Some",
                      value |-> <<0, 0, 0, 4, 4, 4, 6, 6, 9, 9>>[rank],
                      error |-> Rat(<<0, 1, 2, 1, 0, 1, 0, 1, 1, 0>>[rank], 10)])

\* The test was run to its last query
C14_Witness ==
    /\ ScenarioFed
    /\ hist["A"].compress_dropped = 1
    /\ result = [tag |-> "Some", value |-> 9, error |-> Rat(0, 10)]

---------------------------------------------------------------------------
(* C15 *)

\* Whether the values of a sequence of samples never decrease
NonDecreasing(samples) ==
    \A k \in 1 .. Len(samples) - 1 : samples[k].value <= samples[k + 1].value

\* The bag of the values of a sequence of samples
ValueBag(samples) ==
    LET RECURSIVE bag(_)
        bag(k) == IF k = 0 THEN EmptyBag
                  ELSE bag(k - 1) (+) SetToBag({samples[k].value})
    IN bag(Len(samples))

\* C15: on every tree built by insertions the by-reference and the by-value
\* traversals both end and yield the same sequence of samples; the sequence
\* has one sample for each stored one, in non-decreasing order of value, and
\* while every pushed value is kept its values are the values pushed.
C15_IteratorsAgree ==
    \A i \in DOMAIN summaries :
        alive[i] =>
            LET tree == summaries[i].samples_tree
                by_ref == tree_iter(tree)
                by_value == IntoIter_collect(tree_into_iter(tree))
            IN /\ Iter_completes(Iter_new(tree.root))
               /\ by_ref = by_value
               /\ NonDecreasing(by_ref)
               /\ Len(by_ref) = tree.len
               /\ (tree.len = summaries[i].len => ValueBag(by_ref) = stream[i])

\* A tree of three levels was traversed
C15_Witness ==
    \E i \in DOMAIN summaries :
        /\ alive[i]
        /\ summaries[i].samples_tree.depth >= 2
        /\ summaries[i].samples_tree.len = summaries[i].len

---------------------------------------------------------------------------
(* C16 *)

\* C16: after any sequence of record_sample calls, those that demote the
\* previous maximum through insert_max_checkpoint included, every leaf of
\* the tree of checkpoints is at the same depth
C16_LeavesSameDepth == LeafDepths(ctree.root) = {depth(ctree.root)}

\* A trunk was split below a root that grew twice
C16_Witness ==
    /\ depth(ctree.root) = 3
    /\ Len(ctree.root.children) >= 2
    /\ result.tag # "panic"

---------------------------------------------------------------------------
(* C17 *)

\* C17: every node of the tree of checkpoints holds at most NODE_CAPACITY
\* checkpoints and every node but the root at least NODE_CAPACITY / 2, in
\* the tree rebuilt by a bulk compression and after the samples recorded
\* later
C17_NodeOccupancy == Occupancy(ctree.root, TRUE)

\* A tree of three levels that was rebuilt by a bulk compression and had a
\* node split by a sample recorded since
C17_Witness ==
    /\ fed.compressed > 0
    /\ fed.split
    /\ depth(ctree.root) = 3
    /\ result.tag # "panic"

---------------------------------------------------------------------------
(* C18 *)

\* The sum of f over the items lo..hi of a sequence
RECURSIVE SumOver(_, _, _, _)
SumOver(F(_), items, lo, hi) ==
    IF lo > hi THEN 0
    ELSE IF lo = hi THEN F(items[lo])
    ELSE SumOver(F, items, lo, (lo + hi) \div 2)
           + SumOver(F, items, (lo + hi) \div 2 + 1, hi)

\* The sum of g over the samples a summary retains
SumOfG(s) ==
    With(tree_iter(s.samples_tree), LAMBDA samples :
       SumOver(LAMBDA sample : sample.g, samples, 1, Len(samples)))

\* The sum of min_gap over the checkpoints of a tree, the maximum kept
\* outside the root included
SumOfMinGap(tree) ==
    With(tree_checkpoints(tree), LAMBDA checkpoints :
       SumOver(LAMBDA checkpoint : checkpoint.min_gap, checkpoints, 1,
               Len(checkpoints)))

\* C18: in every reachable state the sum of g over the samples a summary
\* retains equals its len(), whatever insert_one, compress and merge did,
\* and the sum of min_gap over the checkpoints of a tree of checkpoints, its
\* maximum included, equals the number of samples recorded
C18_GapsSumToLen ==
    /\ \A i \in DOMAIN summaries :
          alive[i] => SumOfG(summaries[i]) = summaries[i].len
    /\ result.tag # "panic" => SumOfMinGap(ctree) = fed.n

\* A summary that received values by insert_one and by merge, that compress
\* dropped samples of and that retains fewer samples than values
C18_Witness ==
    \E i \in DOMAIN summaries :
        /\ alive[i]
        /\ hist[i].inserts >= 1
        /\ hist[i].merged_len >= 2
        /\ hist[i].compress_dropped > 0
        /\ summaries[i].samples_tree.len < summaries[i].len
        /\ SumOfG(summaries[i]) >= 5

---------------------------------------------------------------------------
(* C19 *)

\* The samples of the checkpoints at and below a node
SamplesBelow(node) ==
    With(Node_checkpoints(node), LAMBDA checkpoints :
       {checkpoints[k].sample : k \in 1 .. Len(checkpoints)})

\* a before b: a < b in the strict order, a <= b otherwise
Before(a, b, strict) == IF strict THEN a < b ELSE a <= b

\* Whether at every trunk at and below a node every checkpoint of child i is
\* before checkpoints[i], which is before every checkpoint of child i + 1
RECURSIVE TrunksOrdered(_, _)
TrunksOrdered(node, strict) ==
    node.kind = "Trunk" =>
       /\ \A i \in 1 .. Len(node.checkpoints) :
             /\ \A below \in SamplesBelow(node.children[i]) :
                   Before(below, node.checkpoints[i].sample, strict)
             /\ \A above \in SamplesBelow(node.children[i + 1]) :
                   Before(node.checkpoints[i].sample, above, strict)
       /\ \A i \in 1 .. Len(node.children) :
             TrunksOrdered(node.children[i], strict)

\* Whether every checkpoint of the root is before the maximum kept outside
MaximumOrdered(tree, strict) ==
    IsSome(tree.extremes) =>
       \A below \in SamplesBelow(tree.root) :
          Before(below, Unwrap(tree.extremes)[2].sample, strict)

\* No two of the samples recorded are equal
DistinctSamples == \A sample \in BagToSet(fed.values) :
                      CopiesIn(sample, fed.values) = 1

---------------------------------------------------------------------------
(* C20 *)

\* C20: every checkpoint that record_sample demotes into the tree through
\* insert_max_checkpoint is strictly greater than every checkpoint of the
\* tree, so that the debug assertion of the leaf holds on every call: no
\* call of record_sample panics
C20_DemotedAboveTree == result # Panicked("debug_assert")

---------------------------------------------------------------------------
(* C21 *)

\* The samples a descent is tried with: every value of the stream and one
\* below and above them
DescentSamples ==
    IF fed.order \in {"any", "exact"} THEN 0 .. CheckpointsVal
    ELSE 0 .. CheckpointsDeep + 1

\* The first checkpoint of a sequence in order that is greater than v
Successor(checkpoints, v) ==
    LET greater == {k \in 1 .. Len(checkpoints) : checkpoints[k].sample > v}
    IN checkpoints[CHOOSE k \in greater : \A j \in greater : k <= j]

\* C21: when record_sample(v) descends the tree (v below the maximum), the
\* checkpoint that reaches the leaf as the neighbour of v is the in-order
\* successor of v over the checkpoints of the tree and the maximum kept
\* outside: the first one strictly greater than v
C21_SuccessorReachesLeaf ==
    IsSome(ctree.extremes) =>
       LET max_checkpoint == Unwrap(ctree.extremes)[2]
           checkpoints == tree_checkpoints(ctree)
       IN \A v \in DescentSamples :
             v < max_checkpoint.sample =>
                Node_following(ctree.root, v, max_checkpoint)
                  = Successor(checkpoints, v)

\* In a tree of three levels a sample recorded below a leaf was charged to
\* its successor in the root, and the successors of other samples are in a
\* leaf and outside the tree
C21_Witness ==
    /\ depth(ctree.root) = 3
    /\ result.tag # "panic"
    /\ \E i \in 1 .. Len(ctree.root.checkpoints) :
          ctree.root.checkpoints[i].min_gap = 2
    /\ \E v \in DescentSamples :
          /\ v < Unwrap(ctree.extremes)[2].sample
          /\ Node_following(ctree.root, v, Unwrap(ctree.extremes)[2])
               = Unwrap(ctree.extremes)[2]
    /\ \E v \in DescentSamples :
          /\ v < Unwrap(ctree.extremes)[2].sample
          /\ Node_following(ctree.root, v, Unwrap(ctree.extremes)[2])
               = ctree.root.children[1].children[1].checkpoints[1]

---------------------------------------------------------------------------
(* C22 *)

\* The step is a call of record_sample that returned
RecordStep == fed'.n = fed.n + 1 /\ result'.tag # "panic"

\* record_sample(v) takes the generic case: the tree is not empty and v is
\* below the maximum
Descends(tree, v) ==
    IsSome(tree.extremes) /\ ~(Unwrap(tree.extremes)[2].sample <= v)

\* The index, in the in-order sequence, of the first checkpoint greater than v
SuccessorIndex(checkpoints, v) ==
    LET greater == {k \in 1 .. Len(checkpoints) : checkpoints[k].sample > v}
    IN CHOOSE k \in greater : \A j \in greater : k <= j

\* The shape of a node: how many checkpoints each node at and below it holds
RECURSIVE Shape(_)
Shape(node) ==
    IF node.kind = "Leaf" THEN <<Len(node.checkpoints)>>
    ELSE <<Len(node.checkpoints),
           [i \in 1 .. Len(node.children) |-> Shape(node.children[i])]>>

\* The step is a descent of record_sample whose successor could grow
GrowStep ==
    /\ RecordStep
    /\ Descends(ctree, fed'.last.sample)
    /\ can_grow(Successor(tree_checkpoints(ctree), fed'.last.sample),
                fed'.last.maximal_gap)

\* Nothing changed in the checkpoints but the gaps of the successor of the
\* sample, which rose by one each
OnlySuccessorGrew ==
    LET old == tree_checkpoints(ctree)
        new == tree_checkpoints(ctree')
        k == SuccessorIndex(old, fed'.last.sample)
    IN /\ ctree'.num_checkpoints = ctree.num_checkpoints
       /\ Shape(ctree'.root) = Shape(ctree.root)
       /\ new = [old EXCEPT ![k].min_gap = @ + 1, ![k].max_gap = @ + 1]

\* C22 as stated: when the successor of v can grow, record_sample(v) changes
\* nothing but that checkpoint, whose gaps rise by one each: no checkpoint
\* is added and the count, the shape and every stored value are unchanged
C22_OnlySuccessorChanges ==
    [][GrowStep =>
         /\ OnlySuccessorGrew
         /\ Unwrap(ctree'.extremes)[1] = Unwrap(ctree.extremes)[1]]_vars

\* C22 amended: the stored minimum also changes, to v, when v is below it
C22_SuccessorAndMinimumChange ==
    [][GrowStep =>
         /\ OnlySuccessorGrew
         /\ Unwrap(ctree'.extremes)[1]
              = (IF fed'.last.sample < Unwrap(ctree.extremes)[1]
                 THEN fed'.last.sample ELSE Unwrap(ctree.extremes)[1])]_vars

\* In a tree of three levels the last sample recorded is the minimum and is
\* no checkpoint: it was charged to its successor
C22_Witness ==
    /\ depth(ctree.root) = 3
    /\ result.tag # "panic"
    /\ fed.last.sample = Unwrap(ctree.extremes)[1]
    /\ fed.last.sample \notin SamplesBelow(ctree.root)
    /\ fed.last.sample # Unwrap(ctree.extremes)[2].sample

---------------------------------------------------------------------------
(* C23 *)

\* The step is a descent of record_sample whose successor could not grow
InsertStep ==
    /\ RecordStep
    /\ Descends(ctree, fed'.last.sample)
    /\ ~can_grow(Successor(tree_checkpoints(ctree), fed'.last.sample),
                 fed'.last.maximal_gap)

\* C23: when the successor of v cannot grow, record_sample(v) inserts one
\* checkpoint for v immediately before the successor, with min_gap = 1 and
\* the max_gap of the successor; the successor and every other checkpoint
\* are unchanged and num_checkpoints rises by one
C23_InsertedBeforeSuccessor ==
    [][InsertStep =>
         LET old == tree_checkpoints(ctree)
             new == tree_checkpoints(ctree')
             k == SuccessorIndex(old, fed'.last.sample)
         IN /\ ctree'.num_checkpoints = ctree.num_checkpoints + 1
            /\ new = SubSeq(old, 1, k - 1)
                       \o <<[sample |-> fed'.last.sample, min_gap |-> 1,
                             max_gap |-> old[k].max_gap]>>
                       \o SubSeq(old, k, Len(old))]_vars

\* The last sample was recorded with a maximal gap that its successor had
\* reached, and stands before it with the same max_gap
C23_Witness ==
    /\ result.tag # "panic"
    /\ fed.last.maximal_gap = CheckpointsGap
    /\ LET checkpoints == tree_checkpoints(ctree)
       IN \E k \in 1 .. Len(checkpoints) - 1 :
             /\ checkpoints[k] = [sample |-> fed.last.sample, min_gap |-> 1,
                                  max_gap |-> CheckpointsGap]
             /\ checkpoints[k + 1].sample > fed.last.sample
             /\ checkpoints[k + 1].max_gap = CheckpointsGap

---------------------------------------------------------------------------
(* C24 *)

\* The step is a call of record_sample with a sample at or above the
\* maximum of a tree that is not empty
MaximumStep ==
    /\ fed'.n = fed.n + 1
    /\ IsSome(ctree.extremes)
    /\ Unwrap(ctree.extremes)[2].sample <= fed'.last.sample

\* What such a call does: the maximum grows and takes the value of the
\* sample, or it is moved into the tree as its last checkpoint and a fresh
\* exact checkpoint becomes the maximum
MaximumRecorded ==
    LET max_checkpoint == Unwrap(ctree.extremes)[2]
        v == fed'.last.sample
    IN IF can_grow(max_checkpoint, fed'.last.maximal_gap)
       THEN /\ Unwrap(ctree'.extremes)[2]
                 = [sample |-> v, min_gap |-> max_checkpoint.min_gap + 1,
                    max_gap |-> max_checkpoint.max_gap + 1]
            /\ ctree'.root = ctree.root
            /\ ctree'.num_checkpoints = ctree.num_checkpoints
       ELSE /\ Unwrap(ctree'.extremes)[2]
                 = [sample |-> v, min_gap |-> 1, max_gap |-> 1]
            /\ Node_checkpoints(ctree'.root)
                 = Node_checkpoints(ctree.root) \o <<max_checkpoint>>
            /\ ctree'.num_checkpoints = ctree.num_checkpoints + 1

\* C24: record_sample(v) with v at or above the maximum either grows the
\* maximum by one and gives it the value v, the tree and num_checkpoints
\* unchanged, or moves the previous maximum unchanged into the tree as its
\* largest checkpoint, makes (v, 1, 1) the maximum and raises
\* num_checkpoints by one
C24_MaximumRecorded ==
    [][MaximumStep => result'.tag # "panic" /\ MaximumRecorded]_vars

---------------------------------------------------------------------------
(* C25 *)

\* C25: in every reachable state num_checkpoints is the number of
\* checkpoints stored in the nodes of the tree plus one for the maximum kept
\* outside, and 0 for the empty tree
C25_CountsCheckpoints ==
    ctree.num_checkpoints
      = Len(Node_checkpoints(ctree.root))
          + (IF IsSome(ctree.extremes) THEN 1 ELSE 0)

\* A tree of three levels, whose root was replaced twice, that holds grown
\* checkpoints: not every sample recorded was counted
C25_Witness ==
    /\ depth(ctree.root) = 3
    /\ ctree.num_checkpoints > CheckpointsCeiling
    /\ ctree.num_checkpoints < fed.n

---------------------------------------------------------------------------
(* SpecSplit: one call of Checkpoints::insert_checkpoint on a list of any *)
(* length up to the capacity, at any position                             *)

\* The lists a call is made on: n checkpoints of increasing samples
SplitLists ==
    { [i \in 1 .. n |-> [sample |-> 2 * i, min_gap |-> 1, max_gap |-> g]] :
        n \in 0 .. NODE_CAPACITY, g \in 1 .. SplitGap }

\* The checkpoints a call inserts
SplitCheckpoints ==
    { [sample |-> s, min_gap |-> 1, max_gap |-> g] :
        s \in 0 .. SplitVal, g \in 1 .. SplitGap }

\* A leaf of m checkpoints whose samples follow lo
SplitLeaf(lo, m, g) ==
    [kind |-> "Leaf",
     checkpoints |-> [k \in 1 .. m |->
                         [sample |-> lo + k, min_gap |-> 1, max_gap |-> g]]]

\* The distance between the samples of two checkpoints of a trunk
SplitStride == 2 * NODE_CAPACITY

\* A trunk of n checkpoints over n + 1 leaves, the leaf at pos being the
\* left half that a split of a full leaf left behind
SplitTrunk(n, g) ==
    Trunk_with_children(
        [i \in 1 .. n |->
            [sample |-> SplitStride * i, min_gap |-> 1, max_gap |-> g]],
        [j \in 1 .. n + 1 |->
            SplitLeaf(SplitStride * (j - 1), NODE_CAPACITY \div 2, g)])

\* The median and the right node that the split of the leaf at pos returned
SplitMedian(pos, g) ==
    [sample |-> SplitStride * pos + NODE_CAPACITY \div 2 + 1,
     min_gap |-> 1, max_gap |-> g]

SplitRight(pos, g) ==
    SplitLeaf(SplitStride * pos + NODE_CAPACITY \div 2 + 1,
              NODE_CAPACITY \div 2, g)

\* The arguments of the call are chosen; the call has not been made
InitSplit ==
    /\ summaries = [i \in Ids |-> Summary_new(Rat(1, 4))]
    /\ alive = [i \in Ids |-> FALSE]
    /\ stream = [i \in Ids |-> EmptyBag]
    /\ hist = [i \in Ids |-> NoHist]
    /\ result = Returned
    /\ ctree = CheckpointsTree_new
    /\ fed = NoFeed
    /\ \/ \E before \in SplitLists, checkpoint \in SplitCheckpoints :
            \E pos \in 0 .. Len(before) :
               call = [op |-> "insert_checkpoint", before |-> before,
                       checkpoint |-> checkpoint, pos |-> pos, done |-> FALSE,
                       self |-> before, result |-> InsertResult_Done]
       \/ \E n \in 1 .. NODE_CAPACITY, g \in 1 .. SplitGap :
            \E pos \in 0 .. n :
               call = [op |-> "generic_insert_checkpoint",
                       before |-> SplitTrunk(n, g),
                       med_checkpoint |-> SplitMedian(pos, g),
                       right_node |-> SplitRight(pos, g),
                       pos |-> pos, done |-> FALSE,
                       self |-> SplitTrunk(n, g),
                       result |-> InsertResult_Done]

\* call.self.insert_checkpoint(call.checkpoint, call.pos)
InsertCheckpointCall ==
    /\ call.op = "insert_checkpoint"
    /\ ~call.done
    /\ LET r == Checkpoints_insert_checkpoint(call.self, call.checkpoint,
                                              call.pos)
       IN call' = [call EXCEPT !.done = TRUE, !.self = r.checkpoints,
                               !.result = r.result]
    /\ UNCHANGED <<summaries, alive, stream, hist, result, ctree, fed>>

\* Trunk::generic_insert_checkpoint(&mut call.self.checkpoints,
\* &mut call.self.children, call.med_checkpoint, call.right_node, call.pos)
GenericInsertCheckpointCall ==
    /\ call.op = "generic_insert_checkpoint"
    /\ ~call.done
    /\ LET r == generic_insert_checkpoint(call.self, call.med_checkpoint,
                                          call.right_node, call.pos)
       IN call' = [call EXCEPT !.done = TRUE, !.self = r.node,
                               !.result = r.result]
    /\ UNCHANGED <<summaries, alive, stream, hist, result, ctree, fed>>

NextSplit == InsertCheckpointCall \/ GenericInsertCheckpointCall

SpecSplit == InitSplit /\ [][NextSplit]_vars

---------------------------------------------------------------------------
(* SpecAscending: the stream 0, 1, 2, ... recorded with a maximal gap of 1, *)
(* as in the tests record_asc_depth_1, record_asc_depth_2 and               *)
(* record_asc_depth_3                                                       *)

\* The lengths n of the three tests
AscendingDepth1 == NODE_CAPACITY

AscendingDepth2 ==
    NODE_CAPACITY + NODE_CAPACITY * (NODE_CAPACITY \div 2) + NODE_CAPACITY

AscendingDepth3 ==
    NODE_CAPACITY
      + NODE_CAPACITY
          * (NODE_CAPACITY \div 2
               + ((NODE_CAPACITY \div 2 + 1) * NODE_CAPACITY) \div 2)
      + (NODE_CAPACITY + NODE_CAPACITY * (NODE_CAPACITY \div 2) + NODE_CAPACITY)

InitAscending == InitCheckpoints

\* tree.record_sample(i, 1) for the next i of 0..n
RecordAscending ==
    /\ fed.n < AscendingDepth3
    /\ RecordSampleCall(fed.n, 1, "ascending")

NextAscending == RecordAscending

SpecAscending == InitAscending /\ [][NextAscending]_vars

---------------------------------------------------------------------------
(* SpecOrder: the function count_compressions of the test `compression`    *)
(* run on two summaries of the same tolerance, "A" fed the ascending and   *)
(* "B" the descending stream                                               *)

\* The tolerances of the two summaries
OrderEpsSet == {Rat(k, OrderDen) : k \in 1 .. (OrderDen - 1) \div 2}

InitOrder ==
    \E e \in OrderEpsSet :
        Built(Ids, {"A", "B"}, [i \in Ids |-> e])

\* The tolerance of the test, 0.1
OrderTestEps == Rat(OrderDen \div 10, OrderDen)

\* The number of values fed to a summary: that of the longest stream of the
\* test that shows a compression for the tolerance of the test, OrderLen
\* for the others
OrderLimit(s) ==
    IF s.max_expected_error = OrderTestEps THEN OrderDeep ELSE OrderLen

\* The body of the loop of count_compressions: summary.insert_one(v), the
\* compressions counted in hist. The values fed are known from their
\* number, so no bag of them is kept.
CountedInsert(i, v) ==
    /\ alive[i]
    /\ LET r == insert_one(summaries[i], v)
       IN /\ summaries' = [summaries EXCEPT ![i] = r.summary]
          /\ hist' = [hist EXCEPT ![i].inserts = @ + 1,
                                  ![i].auto_compressions =
                                      @ + (IF r.compressed THEN 1 ELSE 0),
                                  ![i].stored = r.stored]
          /\ result' = IF r.ok THEN Returned ELSE Panicked("debug_assert")
    /\ UNCHANGED <<stream, alive, ctree, fed, call>>

\* summary.insert_one(i) for the next i of 0..n, on "A"
InsertAscending ==
    /\ hist["A"].inserts = hist["B"].inserts
    /\ hist["A"].inserts < OrderLimit(summaries["A"])
    /\ CountedInsert("A", hist["A"].inserts)

\* summary.insert_one(i) for the next i of (0..n).rev(), on "B": the values
\* are compared only, so the stream that descends from OrderDeep - 1 stands
\* for the one that descends from n - 1, whatever n is
InsertDescending ==
    /\ hist["B"].inserts < hist["A"].inserts
    /\ CountedInsert("B", OrderDeep - 1 - hist["B"].inserts)

NextOrder == InsertAscending \/ InsertDescending

SpecOrder == InitOrder /\ [][NextOrder]_vars

---------------------------------------------------------------------------
(* SpecCompressor: one SamplesCompressor that is pushed samples in sorted *)
(* order and then turned into its tree                                    *)

\* A compressor with limit `budget` that was pushed nothing yet; `stream`
\* is "any" for samples of any g and delta, "test" for those of the test
\* `compress`
NewCompressor(budget, kind) ==
    [op |-> "compressor", stream |-> kind, pushed |-> <<>>,
     c |-> SamplesCompressor_new(budget), out |-> None]

InitCompressor ==
    /\ summaries = [i \in Ids |-> Summary_new(Rat(1, 4))]
    /\ alive = [i \in Ids |-> FALSE]
    /\ stream = [i \in Ids |-> EmptyBag]
    /\ hist = [i \in Ids |-> NoHist]
    /\ result = Returned
    /\ ctree = CheckpointsTree_new
    /\ fed = NoFeed
    /\ \/ \E budget \in 1 .. CompressorBudget :
            call = NewCompressor(budget, "any")
       \/ call = NewCompressor(5, "test")

\* compressor.push(sample)
CompressorPushCall(sample) ==
    /\ call.op = "compressor"
    /\ ~IsSome(call.out)
    /\ call' = [call EXCEPT !.pushed = Append(@, sample),
                            !.c = SamplesCompressor_push(@, sample)]
    /\ UNCHANGED <<summaries, alive, stream, hist, result, ctree, fed>>

\* The next sample is any sample that is not below the last one pushed
PushAny(step, g, delta) ==
    /\ call.stream = "any"
    /\ Len(call.pushed) < CompressorLen
    /\ CompressorPushCall(
           Sample(IF call.pushed = <<>> THEN 0
                  ELSE call.pushed[Len(call.pushed)].value + step,
                  g, delta))

\* The next sample of (0..9).map(|value| Sample { value, g: 1, delta: 2 })
PushTest ==
    /\ call.stream = "test"
    /\ Len(call.pushed) < 9
    /\ CompressorPushCall(Sample(Len(call.pushed), 1, 2))

\* compressor.into_samples_tree().iter().cloned().collect()
IntoSamplesTreeCall ==
    /\ call.op = "compressor"
    /\ ~IsSome(call.out)
    /\ call.stream = "test" => Len(call.pushed) = 9
    /\ call' = [call EXCEPT
                  !.out = Some(tree_iter(
                              SamplesCompressor_into_samples_tree(call.c)))]
    /\ UNCHANGED <<summaries, alive, stream, hist, result, ctree, fed>>

NextCompressor ==
    \/ \E step \in 0 .. 1, g \in 1 .. CompressorG, delta \in 0 .. CompressorDelta :
          PushAny(step, g, delta)
    \/ PushTest
    \/ IntoSamplesTreeCall

SpecCompressor == InitCompressor /\ [][NextCompressor]_vars

---------------------------------------------------------------------------
(* SpecCursor: one IncomingMergeState over a sequence of samples, peeked, *)
(* popped and asked for its aditional_delta in any order                  *)

\* The sequences of n samples of increasing value
RECURSIVE CursorInputs(_)
CursorInputs(n) ==
    IF n = 0 THEN {<<>>}
    ELSE { Append(s, Sample(n, g, delta)) :
             s \in CursorInputs(n - 1),
             g \in 1 .. CompressorG, delta \in 0 .. CompressorDelta }

\* The samples of the test pop_all
CursorTestInput == <<Sample(3, 1, 2), Sample(14, 3, 4), Sample(15, 5, 6)>>

\* IncomingMergeState::new(samples.into_iter()): nothing was called yet
NewCursor(samples) ==
    [op |-> "cursor", input |-> samples,
     m |-> IncomingMergeState_new(IntoIter_new(samples, None)),
     popped |-> <<>>, last |-> [tag |-> "new"]]

InitCursor ==
    /\ summaries = [i \in Ids |-> Summary_new(Rat(1, 4))]
    /\ alive = [i \in Ids |-> FALSE]
    /\ stream = [i \in Ids |-> EmptyBag]
    /\ hist = [i \in Ids |-> NoHist]
    /\ result = Returned
    /\ ctree = CheckpointsTree_new
    /\ fed = NoFeed
    /\ \/ \E n \in 0 .. CursorLen : \E samples \in CursorInputs(n) :
            call = NewCursor(samples)
       \/ call = NewCursor(CursorTestInput)

\* incoming.peek()
PeekCall ==
    /\ call.op = "cursor"
    /\ result.tag # "panic"
    /\ call' = [call EXCEPT !.last = [tag |-> "peek", value |-> peek(call.m),
                                      before |-> call.m]]
    /\ UNCHANGED <<summaries, alive, stream, hist, result, ctree, fed>>

\* incoming.aditional_delta()
AditionalDeltaCall ==
    /\ call.op = "cursor"
    /\ result.tag # "panic"
    /\ call' = [call EXCEPT !.last = [tag |-> "aditional_delta",
                                      value |-> aditional_delta(call.m),
                                      before |-> call.m]]
    /\ UNCHANGED <<summaries, alive, stream, hist, result, ctree, fed>>

\* incoming.pop_front(): the unwrap fails on a cursor that has no sample
PopFrontCall ==
    /\ call.op = "cursor"
    /\ result.tag # "panic"
    /\ IF IsSome(call.m.next_sample)
       THEN LET r == pop_front(call.m)
            IN /\ call' = [call EXCEPT
                             !.m = r.state,
                             !.popped = Append(@, r.sample),
                             !.last = [tag |-> "pop_front", value |-> r.sample,
                                       before |-> call.m]]
               /\ result' = Returned
       ELSE /\ call' = [call EXCEPT !.m.has_started = TRUE]
            /\ result' = Panicked("unwrap")
    /\ UNCHANGED <<summaries, alive, stream, hist, ctree, fed>>

NextCursor == PeekCall \/ AditionalDeltaCall \/ PopFrontCall

SpecCursor == InitCursor /\ [][NextCursor]_vars

---------------------------------------------------------------------------
(* SpecTurns: the summaries of SpecMerge, the loop of merge_sorted_samples *)
(* running one turn at a time with every sample given to the compressor    *)
(* written down in call.log                                                *)

\* The stream is dispatched before the first merge
DispatchTurns(i, v) ==
    /\ call.op = "none"
    /\ Dispatch(i, v)

\* summaries[i].merge(summaries[j]) up to the loop: the assertion, len, the
\* compressor, the two trees taken as iterators, the two cursors
BeginMerge(i, j) ==
    /\ call.op \in {"none", "merged"}
    /\ i # j
    /\ alive[i] /\ alive[j]
    /\ merge_allowed(summaries[i], summaries[j])
    /\ LET s1 == [summaries[i] EXCEPT !.len = @ + summaries[j].len]
           self_samples == tree_into_iter(summaries[i].samples_tree)
           other_samples == tree_into_iter(summaries[j].samples_tree)
       IN /\ call' = [op |-> "merge", self |-> i,
                      self_before |-> summaries[i],
                      other_before |-> summaries[j],
                      self_in |-> IntoIter_collect(self_samples),
                      other_in |-> IntoIter_collect(other_samples),
                      self_input |-> IncomingMergeState_new(self_samples),
                      other_input |-> IncomingMergeState_new(other_samples),
                      compressor |-> SamplesCompressor_new(max_g_delta(s1)),
                      log |-> <<>>]
          /\ summaries' = [summaries EXCEPT
                             ![i] = [s1 EXCEPT !.samples_tree = SamplesTree_new],
                             ![j] = Summary_new(@.max_expected_error)]
    /\ alive' = [alive EXCEPT ![j] = FALSE]
    /\ stream' = [stream EXCEPT ![i] = @ (+) stream[j], ![j] = EmptyBag]
    /\ hist' = [hist EXCEPT ![i].merged_len = @ + summaries[j].len,
                            ![j] = NoHist]
    /\ result' = Returned
    /\ UNCHANGED <<ctree, fed>>

\* The samples push_remaining_to gives to the compressor, as log entries
Remaining(m, source) ==
    IF IsSome(m.next_sample)
    THEN [k \in 1 .. 1 + IntoIter_remaining(m.iterator) |->
             [sample |-> (<<Unwrap(m.next_sample)>>
                            \o IntoIter_collect(m.iterator))[k],
              source |-> source]]
    ELSE <<>>

\* One turn of the loop of merge_sorted_samples
MergeTurn ==
    /\ call.op = "merge"
    /\ LET i == call.self
           self_peeked == peek(call.self_input)
           other_peeked == peek(call.other_input)
       IN IF ~IsSome(self_peeked)
          THEN /\ summaries' = [summaries EXCEPT ![i].samples_tree =
                      SamplesCompressor_into_samples_tree(
                          push_remaining_to(call.other_input, call.compressor))]
               /\ call' = [call EXCEPT
                             !.op = "merged",
                             !.log = @ \o Remaining(call.other_input, "other")]
          ELSE IF ~IsSome(other_peeked)
          THEN /\ summaries' = [summaries EXCEPT ![i].samples_tree =
                      SamplesCompressor_into_samples_tree(
                          push_remaining_to(call.self_input, call.compressor))]
               /\ call' = [call EXCEPT
                             !.op = "merged",
                             !.log = @ \o Remaining(call.self_input, "self")]
          ELSE IF Unwrap(self_peeked).value < Unwrap(other_peeked).value
          THEN LET p == pop_front(call.self_input)
                   new_sample ==
                       [p.sample EXCEPT
                          !.delta = @ + aditional_delta(call.other_input)]
               IN /\ call' = [call EXCEPT
                                !.self_input = p.state,
                                !.compressor =
                                    SamplesCompressor_push(@, new_sample),
                                !.log = Append(@, [sample |-> new_sample,
                                                   source |-> "self"])]
                  /\ UNCHANGED summaries
          ELSE LET p == pop_front(call.other_input)
                   new_sample ==
                       [p.sample EXCEPT
                          !.delta = @ + aditional_delta(call.self_input)]
               IN /\ call' = [call EXCEPT
                                !.other_input = p.state,
                                !.compressor =
                                    SamplesCompressor_push(@, new_sample),
                                !.log = Append(@, [sample |-> new_sample,
                                                   source |-> "other"])]
                  /\ UNCHANGED summaries
    /\ UNCHANGED <<alive, stream, hist, result, ctree, fed>>

NextTurns ==
    \/ \E i \in Ids, v \in Values : DispatchTurns(i, v)
    \/ \E i, j \in Ids : BeginMerge(i, j)
    \/ MergeTurn

SpecTurns == InitMerge /\ [][NextTurns]_vars

---------------------------------------------------------------------------
(* SpecFused: one tree, built as in SpecIter, and one by-reference          *)
(* iterator over it whose next is called one call at a time, also after    *)
(* its first None                                                          *)

\* Any value, while the tree is short and not borrowed by an iterator
StepInsert(v) ==
    /\ call.op = "none"
    /\ summaries["A"].max_expected_error = IterEps
    /\ summaries["A"].len < StepLen
    /\ InsertOneCall("A", v)

\* The values in ascending order, up to a tree of two levels
StepAscend ==
    /\ call.op = "none"
    /\ summaries["A"].max_expected_error = DeepEps
    /\ summaries["A"].len < IterLen
    /\ InsertOneCall("A", summaries["A"].len)

\* summaries["A"].samples_tree.iter()
IterCall ==
    /\ call.op = "none"
    /\ call' = [op |-> "iter",
                stack |-> Iter_new(summaries["A"].samples_tree.root),
                yielded |-> <<>>, nones |-> 0]
    /\ result' = Returned
    /\ UNCHANGED <<summaries, alive, stream, hist, ctree, fed>>

\* iter.next(): the item is added to call.yielded, a None is counted; the
\* unwrap of the last frame of an empty stack panics
NextCall ==
    /\ call.op = "iter"
    /\ result.tag # "panic"
    /\ LET r == Iter_next(call.stack)
       IN IF r.panic
          THEN /\ result' = Panicked("unwrap")
               /\ UNCHANGED call
          ELSE /\ result' = Returned
               /\ call' = [call EXCEPT
                             !.stack = r.stack,
                             !.yielded = IF IsSome(r.item)
                                           THEN Append(@, Unwrap(r.item))
                                           ELSE @,
                             !.nones = IF IsSome(r.item) THEN @ ELSE @ + 1]
    /\ UNCHANGED <<summaries, alive, stream, hist, ctree, fed>>

NextFused ==
    \/ \E v \in 0 .. IterVal : StepInsert(v)
    \/ StepAscend
    \/ IterCall
    \/ NextCall

SpecFused == InitIter /\ [][NextFused]_vars

---------------------------------------------------------------------------
(* C26 *)

\* C26: after insert_checkpoint(checkpoint, pos) on a full list of
\* NODE_CAPACITY checkpoints the call returns Pending(median, right) and the
\* list (left), the median and right, in that order, are the original list
\* with the checkpoint inserted at pos, left and right holding
\* NODE_CAPACITY / 2 checkpoints each; on a list that is not full the call
\* returns Done and the list is the original one with the checkpoint
\* inserted at pos.
C26_SplitKeepsSequence ==
    call.op = "insert_checkpoint" /\ call.done =>
        LET inserted ==
                SubSeq(call.before, 1, call.pos) \o <<call.checkpoint>>
                    \o SubSeq(call.before, call.pos + 1, Len(call.before))
        IN IF Len(call.before) = NODE_CAPACITY
           THEN /\ call.result.tag = "Pending"
                /\ call.self \o <<call.result.med>> \o call.result.right
                     = inserted
                /\ 2 * Len(call.self) = NODE_CAPACITY
                /\ 2 * Len(call.result.right) = NODE_CAPACITY
           ELSE /\ call.result.tag = "Done"
                /\ call.self = inserted

\* A full list was split and the new checkpoint became the median
C26_Witness ==
    /\ call.op = "insert_checkpoint" /\ call.done
    /\ Len(call.before) = NODE_CAPACITY
    /\ call.result.tag = "Pending"
    /\ call.pos = NODE_CAPACITY \div 2
    /\ call.result.med = call.checkpoint
    /\ call.checkpoint.sample = 0

---------------------------------------------------------------------------
(* C27 *)

\* The trunks a call of generic_insert_checkpoint leaves: the trunk itself
\* and, after a split, the trunk returned at its right
ResultingTrunks ==
    IF call.result.tag = "Pending" THEN <<call.self, call.result.right>>
    ELSE <<call.self>>

\* The children of the resulting trunks, from left to right
ResultingChildren ==
    IF call.result.tag = "Pending"
    THEN call.self.children \o call.result.right.children
    ELSE call.self.children

\* The checkpoints of the resulting trunks in order, the median of a split
\* between the two
ResultingCheckpoints ==
    IF call.result.tag = "Pending"
    THEN Node_checkpoints(call.self) \o <<call.result.med>>
           \o Node_checkpoints(call.result.right)
    ELSE Node_checkpoints(call.self)

\* s is strictly ascending by sample
Ascending(s) == \A k \in 1 .. Len(s) - 1 : s[k].sample < s[k + 1].sample

\* C27: after generic_insert_checkpoint(med_checkpoint, right_node, pos),
\* whether the trunk split or not, every resulting trunk has one more child
\* than checkpoints, right_node is the child immediately after the child at
\* pos, the other children keep their order, and every child lies between the
\* checkpoints that divide it from its neighbours: the checkpoints read in
\* order are those of before the call with med_checkpoint and those of
\* right_node added, strictly ascending.
C27_ChildrenInLockstep ==
    call.op = "generic_insert_checkpoint" /\ call.done =>
        /\ \A k \in 1 .. Len(ResultingTrunks) :
              /\ Len(ResultingTrunks[k].children)
                   = Len(ResultingTrunks[k].checkpoints) + 1
              /\ TrunksOrdered(ResultingTrunks[k], TRUE)
        /\ ResultingChildren[call.pos + 1] = call.before.children[call.pos + 1]
        /\ ResultingChildren[call.pos + 2] = call.right_node
        /\ ResultingChildren
             = SubSeq(call.before.children, 1, call.pos + 1)
                 \o <<call.right_node>>
                 \o SubSeq(call.before.children, call.pos + 2,
                           Len(call.before.children))
        /\ Ascending(ResultingCheckpoints)
        /\ Len(ResultingCheckpoints)
             = Len(Node_checkpoints(call.before)) + 1
                 + Len(call.right_node.checkpoints)
        /\ \E k \in 1 .. Len(ResultingCheckpoints) :
              ResultingCheckpoints[k] = call.med_checkpoint

\* A full trunk split between the child at pos and right_node: the child
\* that was split is the last of the left trunk and right_node the first of
\* the right trunk
C27_Witness ==
    /\ call.op = "generic_insert_checkpoint" /\ call.done
    /\ call.result.tag = "Pending"
    /\ call.result.med = call.med_checkpoint
    /\ call.self.children[Len(call.self.children)]
         = call.before.children[call.pos + 1]
    /\ call.result.right.children[1] = call.right_node

---------------------------------------------------------------------------
(* C28 *)

\* C28: when the values 0, 1, ..., n - 1 are recorded in that order with a
\* maximal gap of 1, no call fails, the tree stores n checkpoints and counts
\* n, and its depth is 1 for n = K, 2 for n = K + K * (K / 2) + K and 3 for
\* n = K + K * (K / 2 + (K / 2 + 1) * K / 2) + (K + K * (K / 2) + K), K
\* being NODE_CAPACITY.
C28_AscendingDepth ==
    fed.order = "ascending" =>
        /\ result.tag # "panic"
        /\ ctree.num_checkpoints = fed.n
        /\ Len(tree_checkpoints(ctree)) = fed.n
        /\ fed.n = AscendingDepth1 => depth(ctree.root) = 1
        /\ fed.n = AscendingDepth2 => depth(ctree.root) = 2
        /\ fed.n = AscendingDepth3 => depth(ctree.root) = 3

\* The stream of the third test was recorded and the tree has three levels
C28_Witness ==
    /\ fed.order = "ascending"
    /\ fed.n = AscendingDepth3
    /\ AscendingDepth1 = 16 /\ AscendingDepth2 = 160 /\ AscendingDepth3 = 1456
    /\ depth(ctree.root) = 3
    /\ ctree.num_checkpoints = AscendingDepth3

---------------------------------------------------------------------------
(* C29 *)

\* base to the power of exponent
RECURSIVE Power(_, _)
Power(base, exponent) ==
    IF exponent = 0 THEN 1 ELSE base * Power(base, exponent - 1)

\* C29 as stated: in every reachable state the depth of the tree is at most
\* log_K(num_checkpoints) + 1, that is K^(depth - 1) <= num_checkpoints,
\* K being NODE_CAPACITY (the empty tree, of depth 1, is read as satisfying
\* the bound)
C29_DepthBound ==
    Power(NODE_CAPACITY, depth(ctree.root) - 1) <= Max2(ctree.num_checkpoints, 1)

\* C29 amended: a node that splits leaves two halves of K / 2 checkpoints, so
\* in every reachable state the depth is at most
\* log_(K/2)(num_checkpoints) + 1, that is
\* (K / 2)^(depth - 1) <= num_checkpoints (the empty tree read as before)
C29_HalfDepthBound ==
    Power(NODE_CAPACITY \div 2, depth(ctree.root) - 1)
        <= Max2(ctree.num_checkpoints, 1)

\* A tree of three levels that counts fewer than K * K checkpoints
C29_Witness ==
    /\ depth(ctree.root) = 3
    /\ ctree.num_checkpoints < NODE_CAPACITY * NODE_CAPACITY
    /\ ctree.num_checkpoints = Len(tree_checkpoints(ctree))
    /\ result.tag # "panic"

---------------------------------------------------------------------------
(* C30 *)

\* C30: for every n and every tolerance, the summary fed 0, 1, ..., n - 1
\* and the summary fed the same values in descending order store the same
\* number of samples and have run the same number of bulk compressions.
C30_OrdersAgree ==
    hist["A"].inserts = hist["B"].inserts /\ alive["A"] /\ alive["B"] =>
        /\ summaries["A"].samples_tree.len = summaries["B"].samples_tree.len
        /\ hist["A"].auto_compressions = hist["B"].auto_compressions

\* The two summaries of tolerance 1/10 after the first 1000 values of the
\* test `compression`: each stores the 31 samples the test expects, far
\* fewer than the values it was fed
C30_Witness ==
    /\ alive["A"] /\ alive["B"]
    /\ summaries["A"].max_expected_error = OrderTestEps
    /\ summaries["B"].max_expected_error = OrderTestEps
    /\ hist["A"].inserts = 1000 /\ hist["B"].inserts = 1000
    /\ summaries["A"].len = 1000 /\ summaries["B"].len = 1000
    /\ summaries["A"].samples_tree.len = 31
    /\ summaries["B"].samples_tree.len = 31

---------------------------------------------------------------------------
(* C31 *)

\* Every sample of s has g + delta <= budget
WithinBudget(s, budget) ==
    \A k \in 1 .. Len(s) : s[k].g + s[k].delta <= budget

\* C31: when every sample pushed to a compressor had g + delta <= budget and
\* the samples were pushed in non-decreasing order of value, every sample of
\* the tree that into_samples_tree returns has g + delta <= budget and the
\* samples of the tree are in non-decreasing order of value.
C31_CompressorKeepsBudget ==
    /\ call.op = "compressor"
    /\ IsSome(call.out)
    /\ WithinBudget(call.pushed, call.c.max_g_delta)
    /\ NonDecreasing(call.pushed)
    => /\ WithinBudget(Unwrap(call.out), call.c.max_g_delta)
       /\ NonDecreasing(Unwrap(call.out))

\* A full stream within the limit, with two equal values, that came out
\* shorter, one sample of the tree having reached the limit
C31_Witness ==
    /\ call.op = "compressor" /\ call.stream = "any"
    /\ IsSome(call.out)
    /\ Len(call.pushed) = CompressorLen
    /\ WithinBudget(call.pushed, call.c.max_g_delta)
    /\ \E k \in 1 .. Len(call.pushed) - 1 :
          call.pushed[k].value = call.pushed[k + 1].value
    /\ Len(Unwrap(call.out)) < Len(call.pushed)
    /\ \E k \in 1 .. Len(Unwrap(call.out)) :
          /\ Unwrap(call.out)[k].g + Unwrap(call.out)[k].delta
               = call.c.max_g_delta
          /\ Unwrap(call.out)[k].g > CompressorG

---------------------------------------------------------------------------
(* C32 *)

\* The last sample of the block that starts with a sample of s whose g has
\* been added up to acc, the block now ending at s[last]
RECURSIVE BlockEnd(_, _, _, _)
BlockEnd(s, last, acc, budget) ==
    IF last < Len(s) /\ acc + s[last + 1].g + s[last + 1].delta <= budget
    THEN BlockEnd(s, last + 1, acc + s[last + 1].g, budget)
    ELSE [last |-> last, g |-> acc]

\* The greedy blocks of s from s[start] on, one sample for each
RECURSIVE GreedyBlocks(_, _, _)
GreedyBlocks(s, start, budget) ==
    IF start > Len(s) THEN <<>>
    ELSE LET block == BlockEnd(s, start, s[start].g, budget)
         IN <<Sample(s[block.last].value, block.g, s[block.last].delta)>>
              \o GreedyBlocks(s, block.last + 1, budget)

\* The sum of the g of the samples of s
RECURSIVE TotalG(_)
TotalG(s) == IF s = <<>> THEN 0 ELSE Head(s).g + TotalG(Tail(s))

\* No sample of s after the first can join the sample before it
NoPairMerges(s, budget) ==
    \A k \in 2 .. Len(s) - 1 : s[k].g + s[k + 1].g + s[k + 1].delta > budget

\* C32: the tree that into_samples_tree returns holds the first sample
\* pushed, unchanged, followed by one sample for each greedy block of the
\* rest: the value and the delta of the last sample of the block and the sum
\* of the g of the block, a block taking the next sample s while the g it has
\* added up plus s.g + s.delta is at most the limit. So the first and the
\* last value pushed are kept, the sum of g is kept, and the tree holds
\* exactly the samples pushed when no pair can be merged.
C32_GreedyBlocks ==
    call.op = "compressor" /\ IsSome(call.out) =>
        LET pushed == call.pushed
            out == Unwrap(call.out)
            budget == call.c.max_g_delta
        IN /\ out = IF pushed = <<>> THEN <<>>
                    ELSE <<pushed[1]>> \o GreedyBlocks(pushed, 2, budget)
           /\ pushed # <<>> =>
                 /\ out # <<>>
                 /\ out[1] = pushed[1]
                 /\ out[Len(out)].value = pushed[Len(pushed)].value
           /\ TotalG(out) = TotalG(pushed)
           /\ NoPairMerges(pushed, budget) => out = pushed

\* The stream of the test `compress`, nine samples of g 1 and delta 2 under
\* a limit of 5, and the four samples the test expects
C32_Witness ==
    /\ call.op = "compressor" /\ call.stream = "test"
    /\ Len(call.pushed) = 9
    /\ call.out = Some(<<Sample(0, 1, 2), Sample(3, 3, 2), Sample(6, 3, 2),
                         Sample(8, 2, 2)>>)

---------------------------------------------------------------------------
(* C33 *)

\* The sample under the cursor: the one after those popped, if any
Peeked ==
    IF Len(call.popped) < Len(call.input)
    THEN Some(call.input[Len(call.popped) + 1])
    ELSE None

\* What aditional_delta is to return before the call that `last` records
ExpectedDelta(popped) ==
    IF popped = 0 \/ popped >= Len(call.input) THEN 0
    ELSE call.input[popped + 1].g + call.input[popped + 1].delta - 1

\* C33: aditional_delta() is 0 until the first pop_front, g + delta - 1 of
\* the sample under the cursor after at least one pop_front while a sample
\* remains, and 0 once no sample remains; peek returns the sample under the
\* cursor and leaves the cursor as it was; pop_front returns the samples in
\* their original order.
C33_CursorProtocol ==
    call.op = "cursor" /\ result.tag # "panic" =>
        /\ call.popped = SubSeq(call.input, 1, Len(call.popped))
        /\ call.m.next_sample = Peeked
        /\ call.m.has_started = (Len(call.popped) > 0)
        /\ call.last.tag = "aditional_delta" =>
              /\ call.last.value = ExpectedDelta(Len(call.popped))
              /\ call.m = call.last.before
        /\ call.last.tag = "peek" =>
              /\ call.last.value = Peeked
              /\ call.m = call.last.before
        /\ call.last.tag = "pop_front" =>
              call.last.value = call.input[Len(call.popped)]

\* The cursor of the test pop_all after two pop_front: aditional_delta
\* returned 10 for the third sample (g 5, delta 6)
C33_Witness ==
    /\ call.op = "cursor"
    /\ call.input = CursorTestInput
    /\ Len(call.popped) = 2
    /\ call.last.tag = "aditional_delta"
    /\ call.last.value = 10

---------------------------------------------------------------------------
(* C34 *)

\* How many of the first k - 1 samples given to the compressor came from source
TakenBefore(log, k, source) ==
    Cardinality({n \in 1 .. k - 1 : log[n].source = source})

\* What the opposite side adds to a sample taken while both sides have
\* samples: nothing before that side gave its first sample, g + delta - 1 of
\* its next sample afterwards
OppositeDelta(input, taken) ==
    IF taken = 0 THEN 0 ELSE input[taken + 1].g + input[taken + 1].delta - 1

\* The k-th sample given to the compressor is the one the claim says
TurnAsClaimed(c, k) ==
    LET a == TakenBefore(c.log, k, "self")
        b == TakenBefore(c.log, k, "other")
        e == c.log[k]
    IN IF a < Len(c.self_in) /\ b < Len(c.other_in)
       THEN IF c.other_in[b + 1].value <= c.self_in[a + 1].value
            THEN /\ e.source = "other"
                 /\ e.sample.value = c.other_in[b + 1].value
                 /\ e.sample.g = c.other_in[b + 1].g
                 /\ e.sample.delta = c.other_in[b + 1].delta
                                     + OppositeDelta(c.self_in, a)
            ELSE /\ e.source = "self"
                 /\ e.sample.value = c.self_in[a + 1].value
                 /\ e.sample.g = c.self_in[a + 1].g
                 /\ e.sample.delta = c.self_in[a + 1].delta
                                     + OppositeDelta(c.other_in, b)
       ELSE IF a < Len(c.self_in)
       THEN e.source = "self" /\ e.sample = c.self_in[a + 1]
       ELSE /\ b < Len(c.other_in)
            /\ e.source = "other" /\ e.sample = c.other_in[b + 1]

\* C34: during merge the samples of both summaries reach the compressor in
\* non-decreasing value order, each exactly once; on equal peeked values the
\* sample of other is taken first; a sample taken while both sides have
\* samples has its delta raised by the opposite cursor's aditional_delta at
\* that moment and its g unchanged; the samples drained after one side is
\* exhausted are pushed unmodified; the finished loop leaves the tree that
\* merge builds
C34_MergeOrder ==
    call.op \in {"merge", "merged"} =>
        /\ \A k \in 1 .. Len(call.log) : TurnAsClaimed(call, k)
        /\ NonDecreasing([k \in 1 .. Len(call.log) |-> call.log[k].sample])
        /\ call.op = "merged" =>
              /\ TakenBefore(call.log, Len(call.log) + 1, "self")
                     = Len(call.self_in)
              /\ TakenBefore(call.log, Len(call.log) + 1, "other")
                     = Len(call.other_in)
              /\ summaries[call.self]
                     = merge(call.self_before, call.other_before)

\* A finished merge that took a sample of other on equal values, raised a
\* delta by a positive amount and drained more than one sample
C34_Witness ==
    /\ call.op = "merged"
    /\ \E k \in 1 .. Len(call.log) :
          LET a == TakenBefore(call.log, k, "self")
              b == TakenBefore(call.log, k, "other")
          IN /\ a < Len(call.self_in) /\ b < Len(call.other_in)
             /\ call.other_in[b + 1].value = call.self_in[a + 1].value
             /\ call.log[k].source = "other"
    /\ \E k \in 1 .. Len(call.log) :
          LET a == TakenBefore(call.log, k, "self")
              b == TakenBefore(call.log, k, "other")
          IN /\ a < Len(call.self_in) /\ b < Len(call.other_in)
             /\ call.log[k].source = "self"
             /\ call.log[k].sample.delta > call.self_in[a + 1].delta
    /\ \E k \in 1 .. Len(call.log) - 1 :
          LET a == TakenBefore(call.log, k, "self")
              b == TakenBefore(call.log, k, "other")
          IN a = Len(call.self_in) \/ b = Len(call.other_in)

---------------------------------------------------------------------------
(* C35 *)

\* The smallest rank the k-th sample can have: the sum of g up to it
RECURSIVE RunningG(_, _)
RunningG(samples, k) ==
    IF k = 0 THEN 0 ELSE RunningG(samples, k - 1) + samples[k].g

\* The worst-case rank error of answering target_rank with the k-th sample
WorstCase(samples, k, target_rank) ==
    Max2(target_rank - RunningG(samples, k),
         RunningG(samples, k) + samples[k].delta - target_rank)

\* The first sample in traversal order among those of least worst-case error
FirstBest(samples, target_rank) ==
    CHOOSE k \in 1 .. Len(samples) :
        /\ \A j \in 1 .. Len(samples) :
              WorstCase(samples, k, target_rank)
                  <= WorstCase(samples, j, target_rank)
        /\ \A j \in 1 .. k - 1 :
              WorstCase(samples, j, target_rank)
                  > WorstCase(samples, k, target_rank)

\* C35: query_with_error(q) returns the sample whose worst-case rank error
\* max(target_rank - min_rank, max_rank - target_rank) is smallest over the
\* retained samples, min_rank being the running sum of g and max_rank =
\* min_rank + delta, and reports that error divided by len; of several
\* samples with the smallest error the first in traversal order is returned
C35_QueryPicksLeastError ==
    \A i \in NonEmpty : \A q \in ValidQuantiles \cup RankQuantiles(summaries[i].len) :
        LET r == query_with_error(summaries[i], q)
            target_rank == quantile_to_rank(q, summaries[i].len)
            k == FirstBest(Samples(i), target_rank)
        IN /\ r.tag = "Some"
           /\ r.value = Samples(i)[k].value
           /\ r.error = Rat(WorstCase(Samples(i), k, target_rank),
                            summaries[i].len)

\* query_with_error has answered with the first of two samples of different
\* values that have the same, smallest, worst-case error
C35_Witness ==
    \E i \in NonEmpty : \E q \in ValidQuantiles :
        LET target_rank == quantile_to_rank(q, summaries[i].len)
            k == FirstBest(Samples(i), target_rank)
        IN /\ result = query_with_error(summaries[i], q)
           /\ result.tag = "Some"
           /\ result.value = Samples(i)[k].value
           /\ \E j \in k + 1 .. Len(Samples(i)) :
                 /\ WorstCase(Samples(i), j, target_rank)
                        = WorstCase(Samples(i), k, target_rank)
                 /\ Samples(i)[j].value # Samples(i)[k].value

---------------------------------------------------------------------------
(* C37 *)

\* The operands of the subtraction query_with_error evaluates for the k-th
\* sample are in the order an unsigned subtraction needs, and its result is
\* the larger of the two distances
SubtractionInRange(samples, k, target_rank) ==
    LET min_rank == RunningG(samples, k)
        max_rank == min_rank + samples[k].delta
        mid_rank == (min_rank + max_rank) \div 2
        candidate == rank_errors(samples, 0, target_rank)[k]
    IN /\ target_rank > mid_rank => target_rank > min_rank
       /\ ~(target_rank > mid_rank) => target_rank <= max_rank
       /\ candidate.sample = samples[k]
       /\ candidate.max_rank_error >= 0
       /\ candidate.max_rank_error
              = Max2(Abs(target_rank - min_rank), Abs(max_rank - target_rank))

\* C37: in query_with_error the unsigned subtractions never underflow: for
\* every retained sample and every target rank in 1..len, target_rank -
\* min_rank is evaluated only when target_rank > min_rank and max_rank -
\* target_rank only when target_rank <= max_rank, so the candidate error is
\* max(|target_rank - min_rank|, |max_rank - target_rank|)
C37_NoUnderflow ==
    \A i \in NonEmpty : \A target_rank \in 1 .. summaries[i].len :
        \A k \in 1 .. Len(Samples(i)) :
            SubtractionInRange(Samples(i), k, target_rank)

\* query_with_error has run with a target rank above the largest rank of one
\* sample and below the smallest rank of another, on samples one of which
\* has delta > 0
C37_Witness ==
    \E i \in NonEmpty : \E q \in ValidQuantiles :
        /\ result = query_with_error(summaries[i], q)
        /\ result.tag = "Some"
        /\ \E k \in 1 .. Len(Samples(i)) : Samples(i)[k].delta > 0
        /\ \E k \in 1 .. Len(Samples(i)) :
              quantile_to_rank(q, summaries[i].len)
                  > RunningG(Samples(i), k) + Samples(i)[k].delta
        /\ \E k \in 1 .. Len(Samples(i)) :
              quantile_to_rank(q, summaries[i].len) < RunningG(Samples(i), k)

---------------------------------------------------------------------------
(* C36 *)

\* The smallest sample a summary retains is exact
MinimumExact(i) == Samples(i)[1].g = 1 /\ Samples(i)[1].delta = 0

\* The largest sample a summary retains has no uncertainty
MaximumCertain(i) == Samples(i)[Len(Samples(i))].delta = 0

\* The maximum checkpoint kept outside the root has min_gap = max_gap
MaxCheckpointCertain(tree) ==
    IsSome(tree.extremes) =>
        Unwrap(tree.extremes)[2].min_gap = Unwrap(tree.extremes)[2].max_gap

\* No summary operation has failed a debug assertion of push_value
MinMaxAssertionsHold ==
    (\E i \in DOMAIN alive : alive[i]) => result # Panicked("debug_assert")

\* C36: in every non-empty state reachable by insert_one, bulk compression
\* and merge the smallest retained sample has g = 1 and delta = 0 and the
\* largest retained sample has delta = 0 (for the tree of checkpoints: the
\* maximum checkpoint kept outside the root has min_gap = max_gap); the
\* debug assertions on the minimum and the maximum sample never fail
C36_ExtremesExact ==
    /\ \A i \in NonEmpty : MinimumExact(i) /\ MaximumCertain(i)
    /\ MinMaxAssertionsHold
    /\ MaxCheckpointCertain(ctree)

\* A summary that received values by insert_one and by merge, that compress
\* dropped samples of, whose largest sample stands for several values and
\* that holds a sample with delta > 0 between its extremes
C36_Witness ==
    \E i \in NonEmpty :
        /\ hist[i].inserts >= 1
        /\ hist[i].merged_len >= 2
        /\ hist[i].compress_dropped > 0
        /\ Len(Samples(i)) >= 3
        /\ Samples(i)[Len(Samples(i))].g >= 2
        /\ \E k \in 2 .. Len(Samples(i)) - 1 : Samples(i)[k].delta > 0
        /\ MinimumExact(i) /\ MaximumCertain(i)

---------------------------------------------------------------------------
(* C38 *)

\* C38: once the by-reference iterator has returned None, on an empty tree
\* too, every further call of next returns None and does not fail: no call
\* of next ends in a panic, and nothing is yielded after a None
C38_IterFused ==
    call.op = "iter" =>
        /\ result.tag # "panic"
        /\ call.nones >= 1 => call.yielded = Samples("A")

\* Up to its first None the iterator does not fail and yields the samples of
\* the tree
C38_UntilFirstNone ==
    call.op = "iter" =>
        /\ call.nones = 0 => result.tag # "panic"
        /\ call.nones >= 1 => call.yielded = Samples("A")
        /\ call.nones <= 1

=========================================================================
